---- MODULE Spec2Model ----
(***************************************************************************)
(* A model of vehicle_nn_core's ingestion pipeline: MessageProcessor       *)
(* (src/src/message_processor.rs), the message model, priorities, sampling *)
(* configuration and statistics (src/src/types.rs) and the performance     *)
(* monitor (src/src/performance.rs).                                       *)
(*                                                                         *)
(* Conventions.  Durations and Instants are integer milliseconds.  An f64  *)
(* timestamp is a fixed-point integer in milliseconds, so that the cast    *)
(* `timestamp as u64` is a real truncation.  A sampling rate (f32) is an   *)
(* integer number of thousandths.  The 64-bit SipHash of get_hash is       *)
(* modelled by the tuple of the values fed to the hasher (collision-free). *)
(***************************************************************************)
EXTENDS Integers, Sequences, FiniteSets, TLC

VARIABLES
    is_running,        \* MessageProcessor.is_running (shared with every task)
    message_callback,  \* MessageProcessor.message_callback: "None" | "Some"
    stats,             \* PerformanceMonitor.stats (ProcessingStats)
    message_cache,     \* DashMap<u64, Instant>: fingerprint -> last seen
    rates,             \* SamplingConfig.rates: service -> thousandths
    chans,             \* every mpsc channel created so far
    self_tx,           \* the Sender handles held by the MessageProcessor
    tasks,             \* every task spawned so far (workers, cache cleanup)
    starts,            \* every start() call that got past the running check
    now,               \* the monotonic clock (Instant::now), ms
    ticks,             \* number of clock advances so far
    calls,             \* number of submit_message calls so far
    offered,           \* per priority: messages that reached try_send
    handled,           \* the callback's invocations in order: message, result
    start_ret,         \* what the most recent start() call returned, if it has
    last,              \* the most recent submit_message call: input and outcome
    enq,               \* the messages try_send accepted, in order
    inflight,          \* a submit_message call between try_send and record_received
    probe,             \* the most recent call of a function of types.rs
    pass,              \* the cleanup task inside cache.retain: its `now`, its position
    mon,               \* PerformanceMonitor: its two locks, last_report_time, callers inside it
    client             \* NanomsgClient: flag, socket, connection state, its tasks

vars == << is_running, message_callback, stats, message_cache, rates, chans,
           self_tx, tasks, starts, now, ticks, calls, offered, handled,
           start_ret, last, enq, inflight, probe, pass,
                    mon, client >>

----------------------------------------------------------------------------
(* Bounds of the model *)

MaxCalls == 2
MaxTicks == 1
MaxStarts == 1

(* Program constants *)

CriticalCapacity == 200
NormalCapacity == 500
BackgroundCapacity == 100
DedupWindowMs == 1000
CacheRetentionMs == 300000

(* The wall clock (chrono::Utc::now, SystemTime::now) at monotonic time 0, ms *)
WallEpochMs == 5000000

Priorities == {"Critical", "Normal", "Background"}

----------------------------------------------------------------------------
(* JSON values, as far as submit_message inspects them *)

Absent == [k |-> "absent", s |-> "", n |-> 0]
JNum(n) == [k |-> "num", s |-> "", n |-> n]
JStr(s) == [k |-> "str", s |-> s, n |-> 0]
JNull == [k |-> "null", s |-> "", n |-> 0]
\* a `data` payload: an object, written s by the Debug formatter
JData(s) == [k |-> "obj", s |-> s, n |-> 0]

NoParams == [k |-> "absent", vin |-> Absent, timestamp |-> Absent, data |-> Absent]
BadParams == [k |-> "str", vin |-> Absent, timestamp |-> Absent, data |-> Absent]
JParams(vin, ts, data) == [k |-> "obj", vin |-> vin, timestamp |-> ts, data |-> data]

Malformed == [wf |-> FALSE, service |-> Absent, params |-> NoParams]
JFrame(service, params) == [wf |-> TRUE, service |-> service, params |-> params]

\* timestamps (ms): 1000.0 s, 1000.5 s
ValidFrames ==
    { JFrame(JStr("tracking"), JParams(JStr("V1"), JNum(1000000), JData("d1"))),
      JFrame(JStr("tracking"), JParams(JStr("V1"), JNum(1000500), JData("d1"))),
      JFrame(JStr("tracking"), JParams(JStr("V1"), JNum(1000000), JData("d2"))),
      JFrame(JStr("traj"), JParams(JStr("V1"), JNum(1000000), JData("d1"))),
      JFrame(JStr("traj"), JParams(JStr("V1"), JNum(1000000), JData("d2"))) }

\* parse, have service and params, but fail is_valid
InvalidFrames ==
    { JFrame(JStr(""), JParams(JStr("V1"), JNum(1000000), JData("d1"))),
      JFrame(JStr("tracking"), JParams(JStr(""), JNum(1000000), JData("d1"))),
      JFrame(JStr("tracking"), JParams(JStr("V1"), JNum(0), JData("d1"))),
      JFrame(JStr("tracking"), JParams(JStr("V1"), JNum(-500), JData("d1"))),
      JFrame(JStr("tracking"), JParams(JStr("V1"), JNum(1000000), Absent)) }

\* `service` or `params` missing or of the wrong type
ShapeErrorFrames ==
    { JFrame(Absent, JParams(JStr("V1"), JNum(1000000), JData("d1"))),
      JFrame(JNum(7), JParams(JStr("V1"), JNum(1000000), JData("d1"))),
      JFrame(JStr("tracking"), NoParams),
      JFrame(JStr("tracking"), BadParams) }

\* `vin` and/or `timestamp` absent from a params object that has `data`
NoVinOrTimestampFrames ==
    { JFrame(JStr("tracking"), JParams(Absent, JNum(1000000), JData("d1"))),
      JFrame(JStr("tracking"), JParams(JStr("V1"), Absent, JData("d1"))),
      JFrame(JStr("tracking"), JParams(Absent, Absent, JData("d1"))) }

\* `vin` or `timestamp` present but of the wrong type
WrongTypeFrames ==
    { JFrame(JStr("vcc"), JParams(JNum(5), JNum(1000000), JData("d1"))),
      JFrame(JStr("vcc"), JParams(JStr("V1"), JStr("soon"), JData("d1"))) }

Frames ==
    {Malformed} \cup ValidFrames \cup InvalidFrames \cup ShapeErrorFrames
        \cup NoVinOrTimestampFrames \cup WrongTypeFrames

\* what kind of input a frame is (for the record of the last submit)
FrameClass(f) ==
    CASE f = Malformed -> "malformed"
      [] f \in ShapeErrorFrames -> "shape_error"
      [] f \in NoVinOrTimestampFrames -> "no_vin_or_timestamp"
      [] f \in WrongTypeFrames -> "wrong_type"
      [] f \in InvalidFrames -> "invalid"
      [] f \in ValidFrames -> "valid"

----------------------------------------------------------------------------
(* types.rs *)

\* VehicleMessage::new, then the fields submit_message fills in
VehicleMessage(service, vin, timestamp, data) ==
    [service |-> service, vin |-> vin, timestamp |-> timestamp, data |-> data,
     channel |-> service]

\* `self.timestamp as u64`: truncation toward zero, saturating at 0
AsU64Secs(timestamp) == IF timestamp <= 0 THEN 0 ELSE timestamp \div 1000

\* mutant: the timestamp is hashed with its fraction
get_hash_WholeTimestamp(m) ==
    IF m.data.k = "absent"
    THEN << m.service, m.vin, m.timestamp >>
    ELSE << m.service, m.vin, m.timestamp, m.data.s >>

\* the fingerprint as the sequence of values fed to the hasher, lines 36-51
get_hash(m) ==
    IF m.data.k = "absent"
    THEN << m.service, m.vin, AsU64Secs(m.timestamp) >>
    ELSE << m.service, m.vin, AsU64Secs(m.timestamp), m.data.s >>

\* f64::INFINITY as a timestamp: above every finite timestamp of the model
\* (for it, AsU64Secs stands for u64::MAX)
PosInfMs == 2000000 * 1000

\* struct VehicleMessage with every field; run_scene None is Absent, extra
\* is params["test_param"]
FullVehicleMessage(service, vin, timestamp, data, channel, run_scene, extra) ==
    [service |-> service, vin |-> vin, timestamp |-> timestamp, data |-> data,
     channel |-> channel, run_scene |-> run_scene, extra |-> extra]

\* serde_json::to_string(&msg): a float that is not finite and an Option
\* that is None are written as null
serialize(m) ==
    [service |-> JStr(m.service),
     vin |-> JStr(m.vin),
     timestamp |-> IF m.timestamp = PosInfMs THEN JNull ELSE JNum(m.timestamp),
     params |-> [data |-> m.data, test_param |-> m.extra],
     channel |-> JStr(m.channel),
     run_scene |-> IF m.run_scene.k = "absent" THEN JNull ELSE m.run_scene]

\* serde_json::from_str::<VehicleMessage>: null is no f64
deserialize(j) ==
    IF j.timestamp.k # "num"
    THEN [tag |-> "Err",
          msg |-> FullVehicleMessage("", "", 0, Absent, "", Absent, Absent)]
    ELSE [tag |-> "Ok",
          msg |-> FullVehicleMessage(
                    j.service.s, j.vin.s, j.timestamp.n, j.params.data,
                    j.channel.s,
                    IF j.run_scene.k = "null" THEN Absent ELSE j.run_scene,
                    j.params.test_param)]

\* mutant: the vin is not looked at
is_valid_AnyVin(m) ==
    /\ m.service # ""
    /\ m.timestamp > 0
    /\ m.data.k # "absent"

is_valid(m) ==
    /\ m.service # ""
    /\ m.vin # ""
    /\ m.timestamp > 0
    /\ m.data.k # "absent"

\* mutant: loc_stat falls to the default arm
from_service_LocStatNormal(service) ==
    IF service \in {"tracking", "route", "error_info"} THEN "Critical"
    ELSE IF service \in {"traj", "moving_obj", "device"} THEN "Background"
    ELSE "Normal"

from_service(service) ==
    IF service \in {"tracking", "route", "error_info"} THEN "Critical"
    ELSE IF service \in {"traj", "moving_obj", "device", "loc_stat"} THEN "Background"
    ELSE "Normal"

queue_capacity(p) ==
    CASE p = "Critical" -> CriticalCapacity
      [] p = "Normal" -> NormalCapacity
      [] p = "Background" -> BackgroundCapacity

Services ==
    {"tracking", "route", "error_info", "vcc", "uos_config",
     "traj", "moving_obj", "device", "loc_stat"}

DefaultRates ==
    [s \in Services |->
        CASE s = "traj" -> 100
          [] s = "moving_obj" -> 50
          [] s = "device" -> 200
          [] s = "loc_stat" -> 300
          [] OTHER -> 1000]

get_rate(rs, service) == IF service \in DOMAIN rs THEN rs[service] ELSE 1000

\* mutant: only the lower limit is applied
Clamp_LowerOnly(rate) == IF rate < 0 THEN 0 ELSE rate

Clamp(rate) == IF rate < 0 THEN 0 ELSE IF rate > 1000 THEN 1000 ELSE rate

set_rate(rs, service, rate) ==
    [s \in (DOMAIN rs) \cup {service} |->
        IF s = service THEN Clamp(rate) ELSE rs[s]]

\* mutant: the comparison with the rate is inclusive
should_process_Inclusive(rs, service, random_val) ==
    IF get_rate(rs, service) >= 1000 THEN TRUE
    ELSE random_val <= get_rate(rs, service)

\* random_val: (hasher.finish() % 1000) of (service, wall-clock nanoseconds)
should_process(rs, service, random_val) ==
    IF get_rate(rs, service) >= 1000 THEN TRUE
    ELSE random_val < get_rate(rs, service)

NewStats ==
    [messages_received |-> 0, messages_processed |-> 0, messages_dropped |-> 0,
     avg_processing_time_us |-> 0, queue_size |-> 0]

increment_received(st) ==
    [st EXCEPT !.messages_received = @ + 1]

increment_processed(st) ==
    [st EXCEPT !.messages_processed = @ + 1]

increment_dropped(st) ==
    [st EXCEPT !.messages_dropped = @ + 1]

update_processing_time(st, new_time_us) ==
    IF st.avg_processing_time_us = 0
    THEN [st EXCEPT !.avg_processing_time_us = new_time_us]
    ELSE [st EXCEPT !.avg_processing_time_us = (@ * 9 + new_time_us) \div 10]

\* mutant: the gauge is added to
update_queue_size_Adds(st, size) ==
    [st EXCEPT !.queue_size = @ + size]

\* ProcessingStats::update_queue_size, lines 163-166
update_queue_size(st, size) ==
    [st EXCEPT !.queue_size = size]

\* an f64 quotient of two counters, kept as the fraction num / den
Ratio(n, d) == [num |-> n, den |-> d]

\* r > n / d, for a fraction r and positive d
RatioGt(r, n, d) == r.num * d > n * r.den

\* ProcessingStats::get_drop_rate, lines 180-186
get_drop_rate(st) ==
    IF st.messages_received > 0
    THEN Ratio(st.messages_dropped, st.messages_received)
    ELSE Ratio(0, 1)

----------------------------------------------------------------------------
(* performance.rs *)

record_dropped(st) == increment_dropped(st)

record_received(st) == increment_received(st)

record_processed(st, processing_time_us) ==
    update_processing_time(increment_processed(st), processing_time_us)

\* PerformanceMonitor::get_stats, lines 25-27: a clone of the statistics
get_stats(st) ==
    [messages_received |-> st.messages_received,
     messages_processed |-> st.messages_processed,
     messages_dropped |-> st.messages_dropped,
     avg_processing_time_us |-> st.avg_processing_time_us,
     queue_size |-> st.queue_size]

\* PerformanceMonitor::reset_stats, lines 134-142
reset_stats(st) == NewStats

\* mutant: the thresholds are inclusive
get_health_status_Inclusive(st) ==
    LET drop_rate == get_drop_rate(st)
        avg_time_us == st.avg_processing_time_us
        queue_size == st.queue_size
    IN  IF ~RatioGt(Ratio(1, 10), drop_rate.num, drop_rate.den)
           \/ avg_time_us >= 10000 \/ queue_size >= 800
        THEN "Critical"
        ELSE IF ~RatioGt(Ratio(1, 20), drop_rate.num, drop_rate.den)
                \/ avg_time_us >= 5000 \/ queue_size >= 500
        THEN "Warning"
        ELSE "Healthy"

\* PerformanceMonitor::get_health_status, lines 145-159; avg_time_ms > 10.0
\* is avg_processing_time_us > 10000
get_health_status(st) ==
    LET drop_rate == get_drop_rate(st)
        avg_time_us == st.avg_processing_time_us
        queue_size == st.queue_size
    IN  IF RatioGt(drop_rate, 1, 10) \/ avg_time_us > 10000 \/ queue_size > 800
        THEN "Critical"
        ELSE IF RatioGt(drop_rate, 1, 20) \/ avg_time_us > 5000 \/ queue_size > 500
        THEN "Warning"
        ELSE "Healthy"

----------------------------------------------------------------------------
(* tokio::sync::mpsc *)

\* mpsc::channel(capacity), both halves alive
NewChannel(capacity) ==
    [cap |-> capacity, buf |-> << >>, rx_alive |-> TRUE, tx_alive |-> TRUE]

\* `let (tx, _) = mpsc::channel(capacity)`: the Receiver is dropped at once,
\* which closes the channel
NewChannelRxDropped(capacity) ==
    [NewChannel(capacity) EXCEPT !.rx_alive = FALSE]

\* Sender::try_send: "Ok" | "Closed" | "Full"
try_send(ch) ==
    IF ~ch.rx_alive THEN "Closed"
    ELSE IF Len(ch.buf) >= ch.cap THEN "Full"
    ELSE "Ok"

\* Receiver::try_recv: "Ok" | "Empty" | "Disconnected"
try_recv(ch) ==
    IF Len(ch.buf) > 0 THEN "Ok"
    ELSE IF ~ch.tx_alive THEN "Disconnected"
    ELSE "Empty"

----------------------------------------------------------------------------
(* MessageProcessor::new *)

\* the three channels of new(): ids 1, 2, 3
NewChans ==
    << NewChannelRxDropped(queue_capacity("Critical")),
       NewChannelRxDropped(queue_capacity("Normal")),
       NewChannelRxDropped(queue_capacity("Background")) >>

NewSelfTx == [p \in Priorities |->
                CASE p = "Critical" -> 1 [] p = "Normal" -> 2 [] p = "Background" -> 3]

NoCall == [class |-> "-", service |-> "-", ret |-> "-", reason |-> "-"]

NoProbe == [op |-> "-", service |-> "-", arg |-> 0, res |-> 0, pri |-> "-"]

\* PerformanceMonitor::new: both locks free, last_report_time = Instant::now();
\* rr, rs: where the caller of record_received, of reset_stats stands
NewMon == [stats_w |-> "-", report_w |-> "-", last_report_time |-> 0,
           rr |-> "idle", rs |-> "idle"]

\* NanomsgClient::new (nanomsg_client.rs lines 143-152); no task spawned yet
NewClient == [is_running |-> FALSE, socket |-> "None",
              connection_state |-> "Disconnected",
              manager |-> "-", receiver |-> "-", start |-> "-",
              stop |-> "-"]

\* the cleanup task is not inside cache.retain
NoPass == [active |-> FALSE, now |-> 0, cache0 |-> << >>, visited |-> {},
           removed_count |-> 0]

Init ==
    /\ is_running = FALSE
    /\ message_callback \in {"None", "Some"}
    /\ stats = NewStats
    /\ message_cache = << >>
    /\ rates = DefaultRates
    /\ chans = NewChans
    /\ self_tx = NewSelfTx
    /\ tasks = << >>
    /\ starts = << >>
    /\ now = 0
    /\ ticks = 0
    /\ calls = 0
    /\ offered = [p \in Priorities |-> 0]
    /\ handled = << >>
    /\ start_ret = "-"
    /\ last = NoCall
    /\ enq = << >>
    /\ inflight = NoCall
    /\ probe = NoProbe
    /\ pass = NoPass
    /\ mon = NewMon
    /\ client = NewClient

----------------------------------------------------------------------------
(* MessageProcessor::submit_message *)

NoMsg == VehicleMessage("", "", 0, Absent)

\* chrono::Utc::now().timestamp() as f64: whole seconds of the wall clock
WallClockSecsMs(t) == ((WallEpochMs + t) \div 1000) * 1000

\* lines 149-186: parse, extract the fields, build the record.
\* tag: "JsonError" | "InvalidMessage" | "Panic" | "Msg"
\* `params` is a serde_json::Map, whose Index panics on a key that is not
\* present; `parsed_data` is a Value, whose Index gives Null instead.
Extract(f, t) ==
    IF ~f.wf THEN [tag |-> "JsonError", msg |-> NoMsg]
    ELSE IF f.service.k # "str" THEN [tag |-> "InvalidMessage", msg |-> NoMsg]
    ELSE IF f.params.k # "obj" THEN [tag |-> "InvalidMessage", msg |-> NoMsg]
    ELSE IF f.params.vin.k = "absent" THEN [tag |-> "Panic", msg |-> NoMsg]
    ELSE IF f.params.timestamp.k = "absent" THEN [tag |-> "Panic", msg |-> NoMsg]
    ELSE [tag |-> "Msg",
          msg |-> VehicleMessage(
                    f.service.s,
                    IF f.params.vin.k = "str" THEN f.params.vin.s ELSE "UNKNOWN",
                    IF f.params.timestamp.k = "num" THEN f.params.timestamp.n
                    ELSE WallClockSecsMs(t),
                    f.params.data)]

\* mutant: the window comparison reversed
is_duplicate_message_Reversed(cache, h, t) ==
    /\ h \in DOMAIN cache
    /\ t - cache[h] > DedupWindowMs

\* is_duplicate_message, the test: an entry younger than one second
is_duplicate_message(cache, h, t) ==
    /\ h \in DOMAIN cache
    /\ t - cache[h] < DedupWindowMs

\* mutant: an entry that exists keeps its first time
cache_insert_KeepsFirst(cache, h, t) ==
    [x \in (DOMAIN cache) \cup {h} |-> IF x \in DOMAIN cache THEN cache[x] ELSE t]

\* is_duplicate_message, the update: message_cache.insert(message_hash, now)
cache_insert(cache, h, t) ==
    [x \in (DOMAIN cache) \cup {h} |-> IF x = h THEN t ELSE cache[x]]

Outcome(ret, reason, st, cache, ch, off) ==
    [ret |-> ret, reason |-> reason, stats |-> st, cache |-> cache,
     chans |-> ch, offered |-> off, sent |-> << >>]

\* lines 188-192: the record failed is_valid
OnInvalid(st, cache, ch, off) ==
    Outcome("InvalidMessage", "invalid message", record_dropped(st), cache, ch, off)

\* lines 196-199
OnDuplicate(st, cache, ch, off) ==
    Outcome("Ok", "duplicate message", record_dropped(st), cache, ch, off)

\* mutant: a message the sampling check rejects is counted as received
OnSampledOut_Counted(st, cache, ch, off) ==
    Outcome("Ok", "sampling", record_received(st), cache, ch, off)

\* lines 202-205
OnSampledOut(st, cache, ch, off) ==
    Outcome("Ok", "sampling", record_dropped(st), cache, ch, off)

\* lines 225-238: try_send succeeded
OnSent(st, cache, ch, off, p, c, m) ==
    [Outcome("Ok", "-", record_received(st), cache,
             [ch EXCEPT ![c].buf = Append(@, m)],
             [off EXCEPT ![p] = @ + 1])
        EXCEPT !.sent = << m >>]

\* mutant: the QueueFull error is returned to the caller
OnSendError_Propagated(st, cache, ch, off, p) ==
    Outcome("QueueFull", "queue full", st, cache, ch, [off EXCEPT ![p] = @ + 1])

\* lines 209-222 map every try_send error (Full and Closed) to QueueFull;
\* lines 239-242 record it as a drop and fall through to Ok(())
OnSendError(st, cache, ch, off, p) ==
    Outcome("Ok", "queue full", record_dropped(st), cache, ch,
            [off EXCEPT ![p] = @ + 1])

\* mutant: the fingerprint is cached only once the sampling check has passed
Dispatch_CachesAfterSampling(m, rv, st, cache, ch, off, tx, rs, t) ==
    LET h == get_hash(m) IN
    IF is_duplicate_message(cache, h, t) THEN OnDuplicate(st, cache, ch, off)
    ELSE IF ~should_process(rs, m.service, rv) THEN OnSampledOut(st, cache, ch, off)
         ELSE LET cache2 == cache_insert(cache, h, t)
                  p == from_service(m.service)
                  c == tx[p]
              IN  IF try_send(ch[c]) = "Ok"
                  THEN OnSent(st, cache2, ch, off, p, c, m)
                  ELSE OnSendError(st, cache2, ch, off, p)

\* lines 194-246 for a record that passed is_valid
Dispatch(m, rv, st, cache, ch, off, tx, rs, t) ==
    LET h == get_hash(m) IN
    IF is_duplicate_message(cache, h, t) THEN OnDuplicate(st, cache, ch, off)
    ELSE LET cache2 == cache_insert(cache, h, t) IN
         IF ~should_process(rs, m.service, rv) THEN OnSampledOut(st, cache2, ch, off)
         ELSE LET p == from_service(m.service)
                  c == tx[p]
              IN  IF try_send(ch[c]) = "Ok"
                  THEN OnSent(st, cache2, ch, off, p, c, m)
                  ELSE OnSendError(st, cache2, ch, off, p)

\* mutant: a parse or shape failure is also counted as a drop
SubmitOutcome_CountsErrors(f, rv) ==
    LET e == Extract(f, now) IN
    IF e.tag # "Msg"
    THEN Outcome(e.tag, "-", record_dropped(stats), message_cache, chans, offered)
    ELSE IF ~is_valid(e.msg)
    THEN OnInvalid(stats, message_cache, chans, offered)
    ELSE Dispatch(e.msg, rv, stats, message_cache, chans, offered, self_tx, rates, now)

\* submit_message, lines 146-247, as a function of the frame
SubmitOutcome(f, rv) ==
    LET e == Extract(f, now) IN
    IF e.tag # "Msg"
    THEN Outcome(e.tag, "-", stats, message_cache, chans, offered)
    ELSE IF ~is_valid(e.msg)
    THEN OnInvalid(stats, message_cache, chans, offered)
    ELSE Dispatch(e.msg, rv, stats, message_cache, chans, offered, self_tx, rates, now)

RandomVals == {0, 100, 999}

submit_message(f, rv) ==
    /\ calls < MaxCalls
    /\ LET o == SubmitOutcome(f, rv) IN
         /\ stats' = o.stats
         /\ message_cache' = o.cache
         /\ chans' = o.chans
         /\ offered' = o.offered
         /\ last' = [class |-> FrameClass(f),
                     service |-> IF f.service.k = "str" THEN f.service.s ELSE "-",
                     ret |-> o.ret, reason |-> o.reason]
         /\ enq' = enq \o o.sent
    /\ calls' = calls + 1
    /\ UNCHANGED << is_running, message_callback, rates, self_tx, tasks, starts,
                    now, ticks, handled, start_ret, inflight, probe, pass,
                    mon, client >>

----------------------------------------------------------------------------
(* MessageProcessor::start, stop, update_sampling_config *)

Worker(p, c) == [kind |-> p, rx |-> c, alive |-> TRUE]

CleanupTask == [kind |-> "cleanup", rx |-> 0, alive |-> TRUE]

\* mutant: stop also clears the statistics
stop_ResetsStats ==
    /\ is_running' = FALSE
    /\ stats' = NewStats
    /\ UNCHANGED << message_callback, message_cache, rates, chans,
                    self_tx, tasks, starts, now, ticks, calls, offered, handled,
                    start_ret, last, enq, inflight, probe, pass, mon, client >>

\* mutant: a start on a running processor spawns a second set of tasks
StartRejected_SpawnsAgain ==
    /\ is_running
    /\ Len(tasks) < 8
    /\ chans' = chans \o << NewChannel(queue_capacity("Critical")),
                            NewChannel(queue_capacity("Normal")),
                            NewChannel(queue_capacity("Background")) >>
    /\ tasks' = tasks \o << Worker("Critical", Len(chans) + 1),
                            Worker("Normal", Len(chans) + 2),
                            Worker("Background", Len(chans) + 3),
                            CleanupTask >>
    /\ start_ret' = "ConfigError"
    /\ UNCHANGED << is_running, message_callback, stats, message_cache, rates,
                    self_tx, starts, now, ticks, calls, offered, handled, last,
                    enq, inflight, probe, pass,
                    mon, client >>

\* lines 69-75: already running
StartRejected ==
    /\ is_running
    /\ start_ret' = "ConfigError"
    /\ UNCHANGED << is_running, message_callback, stats, message_cache, rates,
                    chans, self_tx, tasks, starts, now, ticks, calls, offered,
                    handled, last,
                    enq, inflight, probe, pass,
                    mon, client >>

\* lines 69-125: set the flag, create three channels, hand the receivers to
\* three new workers, spawn the cleanup task; the new senders live in the
\* local `processor` until start returns.  self's senders are not touched.
SpawnTasks ==
    /\ ~is_running
    /\ is_running' = TRUE
    /\ chans' = chans \o << NewChannel(queue_capacity("Critical")),
                            NewChannel(queue_capacity("Normal")),
                            NewChannel(queue_capacity("Background")) >>
    /\ tasks' = tasks \o << Worker("Critical", Len(chans) + 1),
                            Worker("Normal", Len(chans) + 2),
                            Worker("Background", Len(chans) + 3),
                            CleanupTask >>
    /\ starts' = Append(starts, [returned |-> FALSE,
                                 chan0 |-> Len(chans),
                                 task0 |-> Len(tasks)])
    /\ start_ret' = "pending"
    /\ UNCHANGED << message_callback, stats, message_cache, rates, self_tx,
                    now, ticks, calls, offered, handled, last,
                    enq, inflight, probe, pass,
                    mon, client >>

StartSpawn ==
    /\ Len(starts) < MaxStarts
    /\ SpawnTasks

\* lines 127-135: select! completes when one of the four tasks has ended;
\* start returns Ok and drops `processor` (the new senders)
StartReturn(k) ==
    /\ k \in DOMAIN starts
    /\ ~starts[k].returned
    /\ \E i \in 1..4 : ~tasks[starts[k].task0 + i].alive
    /\ starts' = [starts EXCEPT ![k].returned = TRUE]
    /\ chans' = [c \in DOMAIN chans |->
                    IF c \in (starts[k].chan0 + 1)..(starts[k].chan0 + 3)
                    THEN [chans[c] EXCEPT !.tx_alive = FALSE]
                    ELSE chans[c]]
    /\ start_ret' = "Ok"
    /\ UNCHANGED << is_running, message_callback, stats, message_cache, rates,
                    self_tx, tasks, now, ticks, calls, offered, handled, last,
                    enq, inflight, probe, pass,
                    mon, client >>

stop ==
    /\ is_running' = FALSE
    /\ UNCHANGED << message_callback, stats, message_cache, rates, chans,
                    self_tx, tasks, starts, now, ticks, calls, offered, handled,
                    start_ret, last,
                    enq, inflight, probe, pass,
                    mon, client >>

UpdateRates == {-500}

update_sampling_config(service, rate) ==
    /\ rates' = set_rate(rates, service, rate)
    /\ UNCHANGED << is_running, message_callback, stats, message_cache, chans,
                    self_tx, tasks, starts, now, ticks, calls, offered, handled,
                    start_ret, last,
                    enq, inflight, probe, pass,
                    mon, client >>

----------------------------------------------------------------------------
(* spawn_processor_task: one iteration of the worker loop *)

HandlerResults == {"Ok", "Err"}
HandlerTimesUs == {0, 500, 25000}

\* mutant: the worker does not leave its loop
WorkerExit_StaysInLoop(i) ==
    UNCHANGED << tasks, chans, stats, handled >>

\* the task ends: its Receiver is dropped
WorkerExit(i) ==
    /\ tasks' = [tasks EXCEPT ![i].alive = FALSE]
    /\ chans' = [chans EXCEPT ![tasks[i].rx].rx_alive = FALSE]
    /\ UNCHANGED << stats, handled >>

\* mutant: a callback error ends the worker
WorkerProcess_ErrorEndsWorker(i) ==
    LET c == tasks[i].rx
        m == Head(chans[c].buf)
    IN  /\ \E hr \in HandlerResults, us \in HandlerTimesUs :
            IF message_callback = "Some"
            THEN /\ handled' = Append(handled, [msg |-> m, res |-> hr])
                 /\ stats' = IF hr = "Ok" THEN record_processed(stats, us)
                             ELSE record_dropped(stats)
                 /\ tasks' = IF hr = "Ok" THEN tasks
                             ELSE [tasks EXCEPT ![i].alive = FALSE]
                 /\ chans' = IF hr = "Ok" THEN [chans EXCEPT ![c].buf = Tail(@)]
                             ELSE [chans EXCEPT ![c].buf = Tail(@),
                                                ![c].rx_alive = FALSE]
            ELSE /\ handled' = handled
                 /\ stats' = record_processed(stats, us)
                 /\ chans' = [chans EXCEPT ![c].buf = Tail(@)]
                 /\ UNCHANGED tasks

\* mutant: the worker takes the newest message of its channel
WorkerProcess_TakesNewest(i) ==
    LET c == tasks[i].rx
        n == Len(chans[c].buf)
        m == chans[c].buf[n]
    IN  /\ chans' = [chans EXCEPT ![c].buf = SubSeq(@, 1, n - 1)]
        /\ \E hr \in HandlerResults, us \in HandlerTimesUs :
            IF message_callback = "Some"
            THEN /\ handled' = Append(handled, [msg |-> m, res |-> hr])
                 /\ stats' = IF hr = "Ok" THEN record_processed(stats, us)
                             ELSE record_dropped(stats)
            ELSE /\ handled' = handled
                 /\ stats' = record_processed(stats, us)
        /\ UNCHANGED tasks

\* mutant: without a callback the message is counted as dropped
WorkerProcess_NoCallbackDrops(i) ==
    LET c == tasks[i].rx
        m == Head(chans[c].buf)
    IN  /\ chans' = [chans EXCEPT ![c].buf = Tail(@)]
        /\ \E hr \in HandlerResults, us \in HandlerTimesUs :
            IF message_callback = "Some"
            THEN /\ handled' = Append(handled, [msg |-> m, res |-> hr])
                 /\ stats' = IF hr = "Ok" THEN record_processed(stats, us)
                             ELSE record_dropped(stats)
            ELSE /\ handled' = handled
                 /\ stats' = record_dropped(stats)
        /\ UNCHANGED tasks

\* lines 285-315: a message was received
\* hr: what the callback returns; us: the elapsed time measured
WorkerProcess(i) ==
    LET c == tasks[i].rx
        m == Head(chans[c].buf)
    IN  /\ chans' = [chans EXCEPT ![c].buf = Tail(@)]
        /\ \E hr \in HandlerResults, us \in HandlerTimesUs :
            IF message_callback = "Some"
            THEN /\ handled' = Append(handled, [msg |-> m, res |-> hr])
                 /\ stats' = IF hr = "Ok" THEN record_processed(stats, us)
                             ELSE record_dropped(stats)
            ELSE /\ handled' = handled
                 /\ stats' = record_processed(stats, us)
        /\ UNCHANGED tasks

WorkerStep(i) ==
    /\ i \in DOMAIN tasks
    /\ tasks[i].kind \in Priorities
    /\ tasks[i].alive
    /\ IF ~is_running THEN WorkerExit(i)
       ELSE CASE try_recv(chans[tasks[i].rx]) = "Ok" -> WorkerProcess(i)
              [] try_recv(chans[tasks[i].rx]) = "Empty" ->
                    UNCHANGED << tasks, chans, stats, handled >>
              [] try_recv(chans[tasks[i].rx]) = "Disconnected" -> WorkerExit(i)
    /\ UNCHANGED << is_running, message_callback, message_cache, rates, self_tx,
                    starts, now, ticks, calls, offered, start_ret, last,
                    enq, inflight, probe, pass,
                    mon, client >>

----------------------------------------------------------------------------
(* spawn_cache_cleanup_task: one iteration of the cleanup loop.  The 60 s  *)
(* sleep between two passes is not timed: a pass may run at any instant.   *)

retain(cache, t) ==
    [h \in {x \in DOMAIN cache : t - cache[x] < CacheRetentionMs} |-> cache[h]]

CleanupStep(i) ==
    /\ i \in DOMAIN tasks
    /\ tasks[i].kind = "cleanup"
    /\ tasks[i].alive
    /\ IF ~is_running
       THEN /\ tasks' = [tasks EXCEPT ![i].alive = FALSE]
            /\ UNCHANGED message_cache
       ELSE /\ message_cache' = retain(message_cache, now)
            /\ UNCHANGED tasks
    /\ UNCHANGED << is_running, message_callback, stats, rates, chans, self_tx,
                    starts, now, ticks, calls, offered, handled, start_ret,
                    last,
                    enq, inflight, probe, pass,
                    mon, client >>

----------------------------------------------------------------------------
(* the clock *)

TickSteps == {500, 1000, 300000}

Tick(d) ==
    /\ ticks < MaxTicks
    /\ ticks' = ticks + 1
    /\ now' = now + d
    /\ UNCHANGED << is_running, message_callback, stats, message_cache, rates,
                    chans, self_tx, tasks, starts, calls, offered, handled,
                    start_ret, last,
                    enq, inflight, probe, pass,
                    mon, client >>

----------------------------------------------------------------------------

Next ==
    \/ \E f \in Frames, rv \in RandomVals : submit_message(f, rv)
    \/ StartRejected
    \/ StartSpawn
    \/ \E k \in DOMAIN starts : StartReturn(k)
    \/ stop
    \/ \E r \in UpdateRates : update_sampling_config("traj", r)
    \/ \E i \in DOMAIN tasks : WorkerStep(i)
    \/ \E i \in DOMAIN tasks : CleanupStep(i)
    \/ \E d \in TickSteps : Tick(d)

Spec == Init /\ [][Next]_vars

----------------------------------------------------------------------------
(* The MessageProcessor that start() builds at lines 85-94 (`processor`):   *)
(* it shares the cache, the sampling configuration, the monitor, the        *)
(* callback and the running flag with self, and its senders are those of    *)
(* the channels the workers read.  PipelineSpec is that processor between   *)
(* the spawning of the tasks and the return of start(), with submit_message *)
(* called on it while the workers run.  submit_message is taken in two      *)
(* steps, try_send (line 208-222) and record_received (line 226), because   *)
(* the workers run in other tasks between the two.                          *)

MaxPipelineCalls == 3

\* two Critical messages, a Background one, a Normal one, an invalid one
PipelineFrames ==
    { JFrame(JStr("tracking"), JParams(JStr("V1"), JNum(1000000), JData("d1"))),
      JFrame(JStr("tracking"), JParams(JStr("V1"), JNum(1000000), JData("d2"))),
      JFrame(JStr("traj"), JParams(JStr("V1"), JNum(1000000), JData("d1"))),
      JFrame(JStr("vcc"), JParams(JNum(5), JNum(1000000), JData("d1"))),
      JFrame(JStr("tracking"), JParams(JStr(""), JNum(1000000), JData("d1"))) }

PipelineInit ==
    /\ is_running = TRUE
    /\ message_callback \in {"None", "Some"}
    /\ stats = NewStats
    /\ message_cache = << >>
    /\ rates = DefaultRates
    /\ chans = NewChans \o << NewChannel(queue_capacity("Critical")),
                               NewChannel(queue_capacity("Normal")),
                               NewChannel(queue_capacity("Background")) >>
    /\ self_tx = [p \in Priorities |-> Len(NewChans) + NewSelfTx[p]]
    /\ tasks = << Worker("Critical", Len(NewChans) + 1),
                  Worker("Normal", Len(NewChans) + 2),
                  Worker("Background", Len(NewChans) + 3),
                  CleanupTask >>
    /\ starts = << [returned |-> FALSE, chan0 |-> Len(NewChans), task0 |-> 0] >>
    /\ now = 0
    /\ ticks = 0
    /\ calls = 0
    /\ offered = [p \in Priorities |-> 0]
    /\ handled = << >>
    /\ start_ret = "pending"
    /\ last = NoCall
    /\ enq = << >>
    /\ inflight = NoCall
    /\ probe = NoProbe
    /\ pass = NoPass
    /\ mon = NewMon
    /\ client = NewClient

\* submit_message up to and including try_send (lines 146-222); a call that
\* does not enqueue runs to its end
SubmitSend(f, rv) ==
    /\ calls < MaxPipelineCalls
    /\ inflight = NoCall
    /\ LET o == SubmitOutcome(f, rv)
           rec == [class |-> FrameClass(f),
                   service |-> IF f.service.k = "str" THEN f.service.s ELSE "-",
                   ret |-> o.ret, reason |-> o.reason]
       IN  /\ message_cache' = o.cache
           /\ chans' = o.chans
           /\ offered' = o.offered
           /\ enq' = enq \o o.sent
           /\ IF o.sent # << >>
              THEN /\ inflight' = rec
                   /\ UNCHANGED << stats, calls, last >>
              ELSE /\ stats' = o.stats
                   /\ calls' = calls + 1
                   /\ last' = rec
                   /\ UNCHANGED inflight
    /\ UNCHANGED << is_running, message_callback, rates, self_tx, tasks, starts,
                    now, ticks, handled, start_ret, probe, pass,
                    mon, client >>

\* submit_message after a successful try_send (lines 224-247)
SubmitRecord ==
    /\ inflight # NoCall
    /\ stats' = record_received(stats)
    /\ last' = inflight
    /\ inflight' = NoCall
    /\ calls' = calls + 1
    /\ UNCHANGED << is_running, message_callback, message_cache, rates, chans,
                    self_tx, tasks, starts, now, ticks, offered, handled,
                    start_ret, enq, probe, pass,
                    mon, client >>

PipelineNext ==
    \/ \E f \in PipelineFrames, rv \in RandomVals : SubmitSend(f, rv)
    \/ SubmitRecord
    \/ \E i \in DOMAIN tasks : WorkerStep(i)
    \/ stop

PipelineSpec == PipelineInit /\ [][PipelineNext]_vars

----------------------------------------------------------------------------
(* Stopping.  The same processor as in PipelineSpec, with the cleanup task  *)
(* taking its steps too.  Every spawned task is scheduled again and again   *)
(* by the runtime and its sleeps end (lines 316-319, 357), hence the weak   *)
(* fairness of each task's step.                                            *)

StopFrames ==
    { JFrame(JStr("tracking"), JParams(JStr("V1"), JNum(1000000), JData("d1"))),
      JFrame(JStr("tracking"), JParams(JStr("V1"), JNum(1000000), JData("d2"))) }

StopNext ==
    \/ \E f \in StopFrames : SubmitSend(f, 0)
    \/ SubmitRecord
    \/ \E i \in DOMAIN tasks : WorkerStep(i)
    \/ \E i \in DOMAIN tasks : CleanupStep(i)
    \/ stop

StopSpec ==
    /\ PipelineInit
    /\ [][StopNext]_vars
    /\ \A i \in 1..4 : WF_vars(WorkerStep(i)) /\ WF_vars(CleanupStep(i))

----------------------------------------------------------------------------
(* The cleanup pass step by step.  DashMap::retain walks the map shard by   *)
(* shard and holds one shard's lock at a time, so a submit_message on       *)
(* another thread inserts or refreshes entries between two visits of the    *)
(* pass; `now` was read once, before the walk (line 340).                   *)

MaxEvictionTicks == 2

EvictionTickSteps == {500, 299500, 300000}

EvictionFrames ==
    { JFrame(JStr("tracking"), JParams(JStr("V1"), JNum(1000000), JData("d1"))),
      JFrame(JStr("tracking"), JParams(JStr("V1"), JNum(1000000), JData("d2"))) }

\* Instant::duration_since: zero when `earlier` is later than self
DurationSince(t, earlier) == IF t >= earlier THEN t - earlier ELSE 0

\* mutant: the pass uses the one-second window of the duplicate test
should_keep_DedupWindow(t, last_seen) ==
    DurationSince(t, last_seen) < DedupWindowMs

\* line 345
should_keep(t, last_seen) ==
    DurationSince(t, last_seen) < CacheRetentionMs

PassUnchanged ==
    UNCHANGED << is_running, message_callback, stats, rates, chans, self_tx,
                 starts, now, ticks, calls, offered, handled, start_ret, last,
                 enq, inflight, probe, mon, client >>

\* lines 339-341: the flag is set, the pass starts and reads the clock
PassBegin(i) ==
    /\ i \in DOMAIN tasks
    /\ tasks[i].kind = "cleanup"
    /\ tasks[i].alive
    /\ is_running
    /\ ~pass.active
    /\ pass' = [active |-> TRUE, now |-> now, cache0 |-> message_cache,
                visited |-> {}, removed_count |-> 0]
    /\ UNCHANGED << message_cache, tasks >>
    /\ PassUnchanged

\* lines 344-350: the closure of retain on one entry
PassVisit(i, h) ==
    /\ i \in DOMAIN tasks
    /\ tasks[i].kind = "cleanup"
    /\ pass.active
    /\ h \in DOMAIN message_cache
    /\ h \notin pass.visited
    /\ IF should_keep(pass.now, message_cache[h])
       THEN /\ message_cache' = message_cache
            /\ pass' = [pass EXCEPT !.visited = @ \cup {h}]
       ELSE /\ message_cache' = [x \in DOMAIN message_cache \ {h} |-> message_cache[x]]
            /\ pass' = [pass EXCEPT !.visited = @ \cup {h},
                                    !.removed_count = @ + 1]
    /\ UNCHANGED tasks
    /\ PassUnchanged

\* retain returns: every entry that was in the map when the walk began has
\* been visited; one inserted behind the walk is not visited at all
PassEnd(i) ==
    /\ i \in DOMAIN tasks
    /\ tasks[i].kind = "cleanup"
    /\ pass.active
    /\ DOMAIN pass.cache0 \subseteq pass.visited
    /\ pass' = [pass EXCEPT !.active = FALSE]
    /\ UNCHANGED << message_cache, tasks >>
    /\ PassUnchanged

\* line 339 after the sleep of line 357: the flag is clear, the task ends
PassExit(i) ==
    /\ i \in DOMAIN tasks
    /\ tasks[i].kind = "cleanup"
    /\ tasks[i].alive
    /\ ~is_running
    /\ ~pass.active
    /\ tasks' = [tasks EXCEPT ![i].alive = FALSE]
    /\ UNCHANGED << message_cache, pass,
                    mon, client >>
    /\ PassUnchanged

EvictionTick(d) ==
    /\ ticks < MaxEvictionTicks
    /\ ticks' = ticks + 1
    /\ now' = now + d
    /\ UNCHANGED << is_running, message_callback, stats, message_cache, rates,
                    chans, self_tx, tasks, starts, calls, offered, handled,
                    start_ret, last, enq, inflight, probe, pass,
                    mon, client >>

EvictionNext ==
    \/ \E f \in EvictionFrames : submit_message(f, 0)
    \/ \E d \in EvictionTickSteps : EvictionTick(d)
    \/ \E i \in DOMAIN tasks : PassBegin(i)
    \/ \E i \in DOMAIN tasks, h \in DOMAIN message_cache : PassVisit(i, h)
    \/ \E i \in DOMAIN tasks : PassEnd(i)
    \/ \E i \in DOMAIN tasks : PassExit(i)
    \/ stop

EvictionSpec == PipelineInit /\ [][EvictionNext]_vars

----------------------------------------------------------------------------
(* performance.rs on its own: a PerformanceMonitor and its callers.  probe  *)
(* records the most recent call: op, its argument in arg, the status it     *)
(* returned in pri, and in res the smallest duration recorded since the     *)
(* statistics were created or reset (NoSample if there is none).            *)

MaxMonitorReceived == 20
MaxMonitorDropped == 2
MaxMonitorProcessed == 2

NoSample == 0 - 1

MonitorDurationsUs == {0, 5000, 5001, 10000, 10001, 25000}

MonitorQueueSizes == {0, 500, 501, 800, 801}

MonitorInit ==
    /\ is_running = FALSE
    /\ message_callback = "None"
    /\ stats = NewStats
    /\ message_cache = << >>
    /\ rates = DefaultRates
    /\ chans = NewChans
    /\ self_tx = NewSelfTx
    /\ tasks = << >>
    /\ starts = << >>
    /\ now = 0
    /\ ticks = 0
    /\ calls = 0
    /\ offered = [p \in Priorities |-> 0]
    /\ handled = << >>
    /\ start_ret = "-"
    /\ last = NoCall
    /\ enq = << >>
    /\ inflight = NoCall
    /\ probe = [NoProbe EXCEPT !.res = NoSample]
    /\ pass = NoPass
    /\ mon = NewMon
    /\ client = NewClient

MonitorUnchanged ==
    UNCHANGED << is_running, message_callback, message_cache, rates, chans,
                 self_tx, tasks, starts, now, ticks, calls, offered, handled,
                 start_ret, last, enq, inflight, pass,
                    mon, client >>

MonitorCall(op, arg, res, status) ==
    [op |-> op, service |-> "-", arg |-> arg, res |-> res, pri |-> status]

CallRecordReceived ==
    /\ stats.messages_received < MaxMonitorReceived
    /\ stats' = record_received(stats)
    /\ probe' = MonitorCall("record_received", 0, probe.res, "-")
    /\ MonitorUnchanged

CallRecordDropped ==
    /\ stats.messages_dropped < MaxMonitorDropped
    /\ stats' = record_dropped(stats)
    /\ probe' = MonitorCall("record_dropped", 0, probe.res, "-")
    /\ MonitorUnchanged

CallRecordProcessed(us) ==
    /\ stats.messages_processed < MaxMonitorProcessed
    /\ stats' = record_processed(stats, us)
    /\ probe' = MonitorCall("record_processed", us,
                            IF probe.res = NoSample \/ us < probe.res
                            THEN us ELSE probe.res,
                            "-")
    /\ MonitorUnchanged

CallUpdateQueueSize(size) ==
    /\ stats' = update_queue_size(stats, size)
    /\ probe' = MonitorCall("update_queue_size", size, probe.res, "-")
    /\ MonitorUnchanged

CallResetStats ==
    /\ stats' = reset_stats(stats)
    /\ probe' = MonitorCall("reset_stats", 0, NoSample, "-")
    /\ MonitorUnchanged

CallGetHealthStatus ==
    /\ probe' = MonitorCall("get_health_status", 0, probe.res,
                            get_health_status(stats))
    /\ UNCHANGED stats
    /\ MonitorUnchanged

\* the call and the record it returned, in ret
CallGetStats ==
    /\ probe' = [op |-> "get_stats", service |-> "-", arg |-> 0,
                 res |-> probe.res, pri |-> "-", ret |-> get_stats(stats)]
    /\ UNCHANGED stats
    /\ MonitorUnchanged

MonitorNext ==
    \/ CallGetStats
    \/ CallRecordReceived
    \/ CallRecordDropped
    \/ \E us \in MonitorDurationsUs : CallRecordProcessed(us)
    \/ \E size \in MonitorQueueSizes : CallUpdateQueueSize(size)
    \/ CallResetStats
    \/ CallGetHealthStatus

MonitorSpec == MonitorInit /\ [][MonitorNext]_vars

----------------------------------------------------------------------------
(* Stop and start again.  The started processor of PipelineInit is stopped  *)
(* and started a second time while messages are submitted and handled and   *)
(* the statistics may be reset (reset_stats, performance.rs lines 134-142). *)

MaxRestartStarts == 2

RestartFrames ==
    { JFrame(JStr("tracking"), JParams(JStr("V1"), JNum(1000000), JData("d1"))),
      JFrame(JStr("tracking"), JParams(JStr(""), JNum(1000000), JData("d1"))) }

RestartSpawn ==
    /\ Len(starts) < MaxRestartStarts
    /\ SpawnTasks

RestartNext ==
    \/ \E f \in RestartFrames : SubmitSend(f, 0)
    \/ SubmitRecord
    \/ \E i \in DOMAIN tasks : WorkerStep(i)
    \/ \E i \in DOMAIN tasks : CleanupStep(i)
    \/ stop
    \/ StartRejected
    \/ RestartSpawn
    \/ CallResetStats

RestartSpec == PipelineInit /\ [][RestartNext]_vars

----------------------------------------------------------------------------
(* The monitor's locks.  stats and last_report_time are parking_lot         *)
(* RwLocks: write() waits until nobody holds the lock, read() waits while   *)
(* a writer holds it, and neither is reentrant.  A submit_message on the    *)
(* started processor runs record_received lock by lock, beside a caller of  *)
(* reset_stats and a caller of get_stats.  Lock acquisition is fair, hence  *)
(* the fairness of the steps that take a lock.                              *)

MaxLockTicks == 2

ReportIntervalMs == 10000

LockTickSteps == {5000, 10000}

LockFrames ==
    { JFrame(JStr("tracking"), JParams(JStr("V1"), JNum(1000000), JData("d1"))),
      JFrame(JStr("tracking"), JParams(JStr("V1"), JNum(1000000), JData("d2"))),
      JFrame(JStr("tracking"), JParams(JStr(""), JNum(1000000), JData("d1"))) }

LockUnchanged ==
    UNCHANGED << is_running, message_callback, message_cache, rates, chans,
                 self_tx, tasks, starts, ticks, offered, handled, start_ret,
                 enq, probe, pass, client >>

\* submit_message up to try_send; record_dropped takes stats.write()
LockSubmitSend(f) ==
    /\ mon.rr = "idle"
    /\ mon.stats_w = "-"
    /\ SubmitSend(f, 0)

\* record_received, lines 30-32: stats.write(), increment_received
RecvEnter ==
    /\ inflight # NoCall
    /\ mon.rr = "idle"
    /\ mon.stats_w = "-"
    /\ stats' = record_received(stats)
    /\ mon' = [mon EXCEPT !.stats_w = "rr", !.rr = "check"]
    /\ UNCHANGED << now, calls, last, inflight >>
    /\ LockUnchanged

\* check_and_report, lines 74-77: last_report_time.write(), the interval
\* test; when it fails both guards are dropped and submit_message returns
RecvCheck ==
    /\ mon.rr = "check"
    /\ mon.report_w = "-"
    /\ IF DurationSince(now, mon.last_report_time) >= ReportIntervalMs
       THEN /\ mon' = [mon EXCEPT !.report_w = "rr", !.rr = "report"]
            /\ UNCHANGED << calls, last, inflight >>
       ELSE /\ mon' = [mon EXCEPT !.stats_w = "-", !.rr = "idle"]
            /\ last' = inflight
            /\ inflight' = NoCall
            /\ calls' = calls + 1
    /\ UNCHANGED << now, stats >>
    /\ LockUnchanged

\* stats.read(): by check_and_report at line 78 (who = "rr"; it then writes
\* the report, sets last_report_time and returns through record_received
\* and submit_message), or by get_stats at line 26
StatsRead(who) ==
    /\ mon.stats_w = "-"
    /\ IF who = "rr"
       THEN /\ mon.rr = "report"
            /\ mon' = [mon EXCEPT !.last_report_time = now, !.report_w = "-",
                                  !.stats_w = "-", !.rr = "idle"]
            /\ last' = inflight
            /\ inflight' = NoCall
            /\ calls' = calls + 1
            /\ UNCHANGED << now, stats >>
            /\ LockUnchanged
       ELSE CallGetStats

StatsReaders == {"rr", "get_stats"}

\* reset_stats, lines 135-136: stats.write(), the statistics replaced
ResetEnter ==
    /\ mon.rs = "idle"
    /\ mon.stats_w = "-"
    /\ stats' = reset_stats(stats)
    /\ mon' = [mon EXCEPT !.stats_w = "rs", !.rs = "report"]
    /\ UNCHANGED << now, calls, last, inflight >>
    /\ LockUnchanged

\* reset_stats, lines 138-142: last_report_time.write(), both guards dropped
ResetFinish ==
    /\ mon.rs = "report"
    /\ mon.report_w = "-"
    /\ mon' = [mon EXCEPT !.last_report_time = now, !.stats_w = "-",
                          !.rs = "idle"]
    /\ UNCHANGED << now, stats, calls, last, inflight >>
    /\ LockUnchanged

LockTick(d) ==
    /\ ticks < MaxLockTicks
    /\ ticks' = ticks + 1
    /\ now' = now + d
    /\ UNCHANGED << is_running, message_callback, stats, message_cache, rates,
                    chans, self_tx, tasks, starts, calls, offered, handled,
                    start_ret, last, enq, inflight, probe, pass, mon, client >>

LockNext ==
    \/ \E f \in LockFrames : LockSubmitSend(f)
    \/ RecvEnter
    \/ RecvCheck
    \/ \E who \in StatsReaders : StatsRead(who)
    \/ ResetEnter
    \/ ResetFinish
    \/ \E d \in LockTickSteps : LockTick(d)

LockSpec ==
    /\ PipelineInit
    /\ [][LockNext]_vars
    /\ SF_vars(RecvEnter)
    /\ SF_vars(RecvCheck)
    /\ SF_vars(StatsRead("rr"))
    /\ SF_vars(ResetFinish)

----------------------------------------------------------------------------
(* Concurrent callers of submit_message.  The processor is shared behind    *)
(* Arcs and submit_message takes &self, so two tasks of the multi-thread    *)
(* runtime may be inside it together.  is_duplicate_message reads the       *)
(* DashMap with get (the guard ends with the if-let) and writes it with a   *)
(* separate insert: each is one step here.  probe holds each caller's       *)
(* position, its frame and the Instant it took at line 251.                 *)

MaxDedupCalls == 3
MaxDedupTicks == 1

Callers == {"a", "b"}

DedupTickSteps == {1000}

DedupFrames ==
    { JFrame(JStr("tracking"), JParams(JStr("V1"), JNum(1000000), JData("d1"))),
      JFrame(JStr("tracking"), JParams(JStr("V1"), JNum(1000000), JData("d2"))),
      JFrame(JStr("tracking"), JParams(JStr(""), JNum(1000000), JData("d1"))) }

IdleCaller == [pc |-> "idle", f |-> Malformed, t |-> 0]

InSubmit == { c \in Callers : probe[c].pc # "idle" }

CallerMsg(c) == Extract(probe[c].f, probe[c].t).msg

CallerRec(c, o) ==
    [class |-> FrameClass(probe[c].f), service |-> CallerMsg(c).service,
     ret |-> o.ret, reason |-> o.reason]

DedupInit ==
    /\ is_running = TRUE
    /\ message_callback = "None"
    /\ stats = NewStats
    /\ message_cache = << >>
    /\ rates = DefaultRates
    /\ chans = NewChans \o << NewChannel(queue_capacity("Critical")),
                               NewChannel(queue_capacity("Normal")),
                               NewChannel(queue_capacity("Background")) >>
    /\ self_tx = [p \in Priorities |-> Len(NewChans) + NewSelfTx[p]]
    /\ tasks = << Worker("Critical", Len(NewChans) + 1),
                  Worker("Normal", Len(NewChans) + 2),
                  Worker("Background", Len(NewChans) + 3),
                  CleanupTask >>
    /\ starts = << [returned |-> FALSE, chan0 |-> Len(NewChans), task0 |-> 0] >>
    /\ now = 0
    /\ ticks = 0
    /\ calls = 0
    /\ offered = [p \in Priorities |-> 0]
    /\ handled = << >>
    /\ start_ret = "pending"
    /\ last = NoCall
    /\ enq = << >>
    /\ inflight = NoCall
    /\ probe = [c \in Callers |-> IdleCaller]
    /\ pass = NoPass
    /\ mon = NewMon
    /\ client = NewClient

DedupUnchanged ==
    UNCHANGED << is_running, message_callback, rates, self_tx, tasks, starts,
                 now, ticks, handled, start_ret, inflight, pass, mon, client >>

\* the end of a call: its effects and its return value
CallerReturns(c, o) ==
    /\ stats' = o.stats
    /\ chans' = o.chans
    /\ offered' = o.offered
    /\ enq' = enq \o o.sent
    /\ last' = CallerRec(c, o)
    /\ calls' = calls + 1

\* lines 146-192 and line 251: parse, extract, is_valid, Instant::now().  A
\* frame that gives no valid record ends its call here.
SubmitEnter(c, f) ==
    /\ calls + Cardinality(InSubmit) < MaxDedupCalls
    /\ probe[c].pc = "idle"
    /\ LET e == Extract(f, now) IN
       IF e.tag = "Msg" /\ is_valid(e.msg)
       THEN /\ probe' = [probe EXCEPT ![c] = [pc |-> "lookup", f |-> f, t |-> now]]
            /\ UNCHANGED << stats, message_cache, chans, offered, enq, last, calls >>
       ELSE LET o == SubmitOutcome(f, 0) IN
            /\ stats' = o.stats
            /\ last' = [class |-> FrameClass(f),
                        service |-> IF f.service.k = "str" THEN f.service.s ELSE "-",
                        ret |-> o.ret, reason |-> o.reason]
            /\ calls' = calls + 1
            /\ UNCHANGED << message_cache, chans, offered, enq, probe >>
    /\ DedupUnchanged

\* mutant: the lookup also writes the entry, under one lock
CacheLookup_Atomic(c) ==
    /\ probe[c].pc = "lookup"
    /\ LET h == get_hash(CallerMsg(c)) IN
       IF is_duplicate_message(message_cache, h, probe[c].t)
       THEN /\ CallerReturns(c, OnDuplicate(stats, message_cache, chans, offered))
            /\ probe' = [probe EXCEPT ![c] = IdleCaller]
            /\ UNCHANGED message_cache
       ELSE /\ probe' = [probe EXCEPT ![c].pc = "tail"]
            /\ message_cache' = cache_insert(message_cache, h, probe[c].t)
            /\ UNCHANGED << stats, chans, offered, enq, last, calls >>
    /\ DedupUnchanged

\* lines 253-258 and 196-199: message_cache.get and the age test; a
\* duplicate is recorded as dropped and the call returns Ok
CacheLookup(c) ==
    /\ probe[c].pc = "lookup"
    /\ LET h == get_hash(CallerMsg(c)) IN
       IF is_duplicate_message(message_cache, h, probe[c].t)
       THEN /\ CallerReturns(c, OnDuplicate(stats, message_cache, chans, offered))
            /\ probe' = [probe EXCEPT ![c] = IdleCaller]
       ELSE /\ probe' = [probe EXCEPT ![c].pc = "insert"]
            /\ UNCHANGED << stats, chans, offered, enq, last, calls >>
    /\ UNCHANGED message_cache
    /\ DedupUnchanged

\* line 261: message_cache.insert(message_hash, now)
CacheInsert(c) ==
    /\ probe[c].pc = "insert"
    /\ message_cache' = cache_insert(message_cache, get_hash(CallerMsg(c)),
                                     probe[c].t)
    /\ probe' = [probe EXCEPT ![c].pc = "tail"]
    /\ UNCHANGED << stats, chans, offered, enq, last, calls >>
    /\ DedupUnchanged

\* lines 202-246 for a record that passed the dedup check
AfterDedup(m, rv, st, cache, ch, off, tx, rs) ==
    IF ~should_process(rs, m.service, rv) THEN OnSampledOut(st, cache, ch, off)
    ELSE LET p == from_service(m.service)
             c == tx[p]
         IN  IF try_send(ch[c]) = "Ok"
             THEN OnSent(st, cache, ch, off, p, c, m)
             ELSE OnSendError(st, cache, ch, off, p)

\* the rest of the call: sampling, try_send, the statistics, the return
SubmitFinish(c) ==
    /\ probe[c].pc = "tail"
    /\ CallerReturns(c, AfterDedup(CallerMsg(c), 0, stats, message_cache, chans,
                                   offered, self_tx, rates))
    /\ probe' = [probe EXCEPT ![c] = IdleCaller]
    /\ UNCHANGED message_cache
    /\ DedupUnchanged

DedupTick(d) ==
    /\ ticks < MaxDedupTicks
    /\ ticks' = ticks + 1
    /\ now' = now + d
    /\ UNCHANGED << is_running, message_callback, stats, message_cache, rates,
                    chans, self_tx, tasks, starts, calls, offered, handled,
                    start_ret, last, enq, inflight, probe, pass, mon, client >>

DedupNext ==
    \/ \E c \in Callers, f \in DedupFrames : SubmitEnter(c, f)
    \/ \E c \in Callers : CacheLookup(c)
    \/ \E c \in Callers : CacheInsert(c)
    \/ \E c \in Callers : SubmitFinish(c)
    \/ \E d \in DedupTickSteps : DedupTick(d)

DedupSpec == DedupInit /\ [][DedupNext]_vars

----------------------------------------------------------------------------
(* nanomsg_client.rs.  NanomsgClient::start spawns the connection manager   *)
(* and the message receiver on the runtime and waits in select!; stop runs  *)
(* on another task.  is_running, socket and connection_state are separate   *)
(* RwLocks, so every read or write of one of them is a step of its own and  *)
(* the tasks interleave between them.  client.manager, client.receiver,     *)
(* client.start and client.stop are the positions of the four.  The stats   *)
(* reporter touches none of the three fields and is left out.  With         *)
(* MockNanomsgSocket::bind always Ok and max_reconnect_attempts = 10,       *)
(* establish_connection succeeds at its first attempt.                      *)

\* MockNanomsgSocket::recv, lines 75-109: the frames the mock produces
MockFrames ==
    { JFrame(JStr("traj"),
             JParams(JStr("MOCK_VIN_1"), JNum(WallClockSecsMs(now)), JData("m1"))),
      JFrame(JStr("tracking"),
             JParams(JStr("MOCK_VIN_2"), JNum(WallClockSecsMs(now)), JData("m5"))) }

ClientUnchanged ==
    UNCHANGED << is_running, message_callback, stats, message_cache, rates,
                 chans, self_tx, tasks, starts, now, ticks, calls, offered,
                 handled, start_ret, last, enq, inflight, probe, pass, mon >>

\* start, lines 154-173: the flag tested and set, the tasks spawned
ClientStart ==
    /\ client.start = "-"
    /\ ~client.is_running
    /\ client' = [client EXCEPT !.is_running = TRUE, !.manager = "head",
                                !.receiver = "head", !.start = "select"]
    /\ ClientUnchanged

\* start, lines 175-187: select! returns when one of the tasks has ended
ClientStartReturn ==
    /\ client.start = "select"
    /\ client.manager = "exited" \/ client.receiver = "exited"
    /\ client' = [client EXCEPT !.start = "returned"]
    /\ ClientUnchanged

\* stop, lines 194-197: the flag cleared
ClientStopFlag ==
    /\ client.start # "-"
    /\ client.stop = "-"
    /\ client' = [client EXCEPT !.is_running = FALSE, !.stop = "socket"]
    /\ ClientUnchanged

\* stop, lines 200-202: the socket taken and closed
ClientStopSocket ==
    /\ client.stop = "socket"
    /\ client' = [client EXCEPT !.socket = "None", !.stop = "state"]
    /\ ClientUnchanged

\* stop, lines 204-207: the state set, stop returns
ClientStopState ==
    /\ client.stop = "state"
    /\ client' = [client EXCEPT !.connection_state = "Disconnected",
                                !.stop = "returned"]
    /\ ClientUnchanged

\* spawn_connection_manager, line 221: while *is_running.read()
ManagerHead ==
    /\ client.manager = "head"
    /\ client' = [client EXCEPT !.manager =
                     IF client.is_running THEN "match" ELSE "exited"]
    /\ ClientUnchanged

\* lines 222-225, 245, 253: the state read and matched
ManagerMatch ==
    /\ client.manager = "match"
    /\ client' = [client EXCEPT !.manager =
                     CASE client.connection_state = "Disconnected" -> "connecting"
                       [] client.connection_state = "Error" -> "backoff"
                       [] OTHER -> "watch"]
    /\ ClientUnchanged

\* lines 227-230: Connecting stored; establish_connection entered, try_connect
\* binds a new socket and sleeps 10 ms
ManagerConnecting ==
    /\ client.manager = "connecting"
    /\ client' = [client EXCEPT !.connection_state = "Connecting",
                                !.manager = "try_connect"]
    /\ ClientUnchanged

\* variant: the new socket is dropped when the flag has been cleared
ManagerStore_ChecksFlag ==
    /\ client.manager = "try_connect"
    /\ client' = [client EXCEPT !.socket = IF client.is_running THEN "Some" ELSE @,
                                !.manager = IF client.is_running THEN "established"
                                            ELSE "head"]
    /\ ClientUnchanged

\* establish_connection, lines 281-291: *socket_guard = Some(new_socket), Ok
ManagerStore ==
    /\ client.manager = "try_connect"
    /\ client' = [client EXCEPT !.socket = "Some", !.manager = "established"]
    /\ ClientUnchanged

\* lines 233-237: Connected stored
ManagerConnected ==
    /\ client.manager = "established"
    /\ client' = [client EXCEPT !.connection_state = "Connected",
                                !.manager = "head"]
    /\ ClientUnchanged

\* lines 246-252: after reconnect_interval, Disconnected stored
ManagerBackoff ==
    /\ client.manager = "backoff"
    /\ client' = [client EXCEPT !.connection_state = "Disconnected",
                                !.manager = "head"]
    /\ ClientUnchanged

\* lines 253-256: five seconds of sleep
ManagerWatch ==
    /\ client.manager = "watch"
    /\ client' = [client EXCEPT !.manager = "head"]
    /\ ClientUnchanged

\* spawn_message_receiver, line 330: while *is_running.read()
ReceiverHead ==
    /\ client.receiver = "head"
    /\ client' = [client EXCEPT !.receiver =
                     IF client.is_running THEN "match" ELSE "exited"]
    /\ ClientUnchanged

\* lines 331-336: the state read; not Connected means 100 ms of sleep
ReceiverMatch ==
    /\ client.receiver = "match"
    /\ client' = [client EXCEPT !.receiver =
                     IF client.connection_state = "Connected" THEN "batch"
                     ELSE "head"]
    /\ ClientUnchanged

\* receive_message_batch with the socket taken: Err("Socket not available")
ReceiverBatchNoSocket ==
    /\ client.receiver = "batch"
    /\ client.socket = "None"
    /\ client' = [client EXCEPT !.receiver = "error"]
    /\ ClientUnchanged

\* receive_message_batch with a socket: recv gives a frame, submit_message
\* takes it, the next recv gives "No message available" and the batch ends
ReceiverBatch(f, rv) ==
    /\ client.receiver = "batch"
    /\ client.socket = "Some"
    /\ calls < MaxCalls
    /\ LET o == SubmitOutcome(f, rv) IN
         /\ stats' = o.stats
         /\ message_cache' = o.cache
         /\ chans' = o.chans
         /\ offered' = o.offered
         /\ last' = [class |-> "valid", service |-> f.service.s,
                     ret |-> o.ret, reason |-> o.reason]
         /\ enq' = enq \o o.sent
    /\ calls' = calls + 1
    /\ client' = [client EXCEPT !.receiver = "head"]
    /\ UNCHANGED << is_running, message_callback, rates, self_tx, tasks, starts,
                    now, ticks, handled, start_ret, inflight, probe, pass, mon >>

\* a batch whose first recv gives "No message available": Ok(0)
ReceiverBatchEmpty ==
    /\ client.receiver = "batch"
    /\ client.socket = "Some"
    /\ client' = [client EXCEPT !.receiver = "head"]
    /\ ClientUnchanged

\* lines 354-361: Error stored, 100 ms of sleep
ReceiverError ==
    /\ client.receiver = "error"
    /\ client' = [client EXCEPT !.connection_state = "Error",
                                !.receiver = "head"]
    /\ ClientUnchanged

ClientNext ==
    \/ ClientStart
    \/ ClientStartReturn
    \/ ClientStopFlag
    \/ ClientStopSocket
    \/ ClientStopState
    \/ ManagerHead
    \/ ManagerMatch
    \/ ManagerConnecting
    \/ ManagerStore
    \/ ManagerConnected
    \/ ManagerBackoff
    \/ ManagerWatch
    \/ ReceiverHead
    \/ ReceiverMatch
    \/ ReceiverBatchNoSocket
    \/ \E f \in MockFrames, rv \in RandomVals : ReceiverBatch(f, rv)
    \/ ReceiverBatchEmpty
    \/ ReceiverError

ClientSpec == Init /\ [][ClientNext]_vars

----------------------------------------------------------------------------
(* error.rs, and VehicleMessage as a value: get_hash, is_valid, serde.      *)
(* probe holds the message under test in a and the most recent call.        *)

ErrorKinds ==
    {"JsonError", "IoError", "QueueFull", "InvalidMessage", "NanomsgError",
     "Timeout", "ServiceNotFound", "ConfigError"}

\* VehicleError::is_recoverable, error.rs lines 36-42
is_recoverable(kind) == kind \in {"QueueFull", "Timeout", "NanomsgError"}

\* channel, run_scene, params["test_param"]
RecordRests ==
    { << "", Absent, Absent >>,
      << "tracking", JStr("city"), JNum(42) >> }

RecordMessages ==
    { FullVehicleMessage(service, vin, timestamp, data, r[1], r[2], r[3]) :
        service \in {"tracking", ""}, vin \in {"V1", ""},
        timestamp \in {1000000, 1000500, 1001000, 0 - 500, PosInfMs},
        data \in {Absent, JData("d1"), JData("d2")},
        r \in RecordRests }

RecordCall(op, a, b, kind, res) ==
    [op |-> op, a |-> a, b |-> b, kind |-> kind, res |-> res]

RecordInit ==
    /\ is_running = FALSE
    /\ message_callback = "None"
    /\ stats = NewStats
    /\ message_cache = << >>
    /\ rates = DefaultRates
    /\ chans = NewChans
    /\ self_tx = NewSelfTx
    /\ tasks = << >>
    /\ starts = << >>
    /\ now = 0
    /\ ticks = 0
    /\ calls = 0
    /\ offered = [p \in Priorities |-> 0]
    /\ handled = << >>
    /\ start_ret = "-"
    /\ last = NoCall
    /\ enq = << >>
    /\ inflight = NoCall
    /\ probe \in { RecordCall("-", a, a, "-", << >>) : a \in RecordMessages }
    /\ pass = NoPass
    /\ mon = NewMon
    /\ client = NewClient

RecordUnchanged ==
    UNCHANGED << is_running, message_callback, stats, message_cache, rates,
                 chans, self_tx, tasks, starts, now, ticks, calls, offered,
                 handled, start_ret, last, enq, inflight, pass,
                    mon, client >>

\* err.is_recoverable()
CallIsRecoverable(kind) ==
    /\ probe' = RecordCall("is_recoverable", probe.a, probe.a, kind,
                           << is_recoverable(kind) >>)
    /\ RecordUnchanged

\* a.get_hash(), b.get_hash(), a.get_hash() again
CallGetHash(b) ==
    /\ probe' = RecordCall("get_hash", probe.a, b, "-",
                           << get_hash(probe.a), get_hash(b), get_hash(probe.a) >>)
    /\ RecordUnchanged

\* serde_json::from_str(&serde_json::to_string(&a).unwrap())
CallRoundTrip ==
    /\ LET d == deserialize(serialize(probe.a)) IN
         probe' = RecordCall("round_trip", probe.a, d.msg, d.tag, << >>)
    /\ RecordUnchanged

RecordNext ==
    \/ \E kind \in ErrorKinds : CallIsRecoverable(kind)
    \/ \E b \in RecordMessages : CallGetHash(b)
    \/ CallRoundTrip

RecordSpec == RecordInit /\ [][RecordNext]_vars

----------------------------------------------------------------------------
(* types.rs on its own: SamplingConfig and MessagePriority called directly, *)
(* as src/src/tests.rs does (test_sampling_config, test_message_priority)   *)

\* at most this many services hold a rate that set_rate gave them
MaxRatesSet == 2

\* service names: defaults of each priority, an unlisted one, the empty one
TypesServices == {"tracking", "traj", "loc_stat", "vcc", "custom_service", ""}

\* set_rate arguments, thousandths: -0.5, 0.0, 0.5, 1.0, 1.5
SetRateArgs == {-500, 0, 500, 1000, 1500}

\* (hasher.finish() % 1000) ranges over 0..999
HashMod == 0..999
ProbeRandomVals == {0, 1, 499, 500, 999}

BoolToInt(b) == IF b THEN 1 ELSE 0

TypesInit ==
    /\ is_running = FALSE
    /\ message_callback = "None"
    /\ stats = NewStats
    /\ message_cache = << >>
    /\ rates = DefaultRates
    /\ chans = NewChans
    /\ self_tx = NewSelfTx
    /\ tasks = << >>
    /\ starts = << >>
    /\ now = 0
    /\ ticks = 0
    /\ calls = 0
    /\ offered = [p \in Priorities |-> 0]
    /\ handled = << >>
    /\ start_ret = "-"
    /\ last = NoCall
    /\ enq = << >>
    /\ inflight = NoCall
    /\ probe = NoProbe
    /\ pass = NoPass
    /\ mon = NewMon
    /\ client = NewClient

TypesUnchanged ==
    UNCHANGED << is_running, message_callback, stats, message_cache, chans,
                 self_tx, tasks, starts, now, ticks, calls, offered, handled,
                 start_ret, last, enq, inflight, pass,
                    mon, client >>

\* config.set_rate(service, rate); config.get_rate(service)
CallSetRate(service, rate) ==
    /\ Cardinality({s \in DOMAIN set_rate(rates, service, rate) :
                       s \notin DOMAIN DefaultRates
                       \/ set_rate(rates, service, rate)[s] # DefaultRates[s]})
          <= MaxRatesSet
    /\ rates' = set_rate(rates, service, rate)
    /\ probe' = [op |-> "set_rate", service |-> service, arg |-> rate,
                 res |-> get_rate(rates', service), pri |-> "-"]
    /\ TypesUnchanged

\* config.get_rate(service)
CallGetRate(service) ==
    /\ probe' = [op |-> "get_rate", service |-> service, arg |-> 0,
                 res |-> get_rate(rates, service), pri |-> "-"]
    /\ UNCHANGED rates
    /\ TypesUnchanged

\* config.should_process(service), the hash giving random_val
CallShouldProcess(service, random_val) ==
    /\ probe' = [op |-> "should_process", service |-> service, arg |-> random_val,
                 res |-> BoolToInt(should_process(rates, service, random_val)),
                 pri |-> "-"]
    /\ UNCHANGED rates
    /\ TypesUnchanged

\* MessagePriority::from_service(service)
CallFromService(service) ==
    /\ probe' = [op |-> "from_service", service |-> service, arg |-> 0,
                 res |-> 0, pri |-> from_service(service)]
    /\ UNCHANGED rates
    /\ TypesUnchanged

TypesNext ==
    \/ \E s \in TypesServices, r \in SetRateArgs : CallSetRate(s, r)
    \/ \E s \in TypesServices : CallGetRate(s)
    \/ \E s \in TypesServices, rv \in ProbeRandomVals : CallShouldProcess(s, rv)
    \/ \E s \in TypesServices : CallFromService(s)

TypesSpec == TypesInit /\ [][TypesNext]_vars

----------------------------------------------------------------------------
(* Vocabulary of the claims *)

Received == stats.messages_received
Dropped == stats.messages_dropped
Processed == stats.messages_processed

\* this step is one submit_message call
IsSubmitStep == calls' = calls + 1

\* the workers of the priority that have not ended
LiveWorkers(p) == { i \in DOMAIN tasks : tasks[i].kind = p /\ tasks[i].alive }

\* the processor is started: the flag is set and every priority has a worker
Started == is_running /\ \A p \in Priorities : LiveWorkers(p) # {}

Min(a, b) == IF a < b THEN a ELSE b

TruthCount(bs) == Len(SelectSeq(bs, LAMBDA b : b))

\* the priority the specification gives a service name
PriorityByName(service) ==
    CASE service \in {"tracking", "route", "error_info"} -> "Critical"
      [] service \in {"traj", "moving_obj", "device", "loc_stat"} -> "Background"
      [] OTHER -> "Normal"

\* service names the classification is checked on
NamedServices == Services \cup {"custom_service", "", "TRACKING", "locstat"}

\* the messages of a priority, in order: accepted by try_send, waiting in
\* the channel submit_message sends to, handed to the callback
EnqOf(p) == SelectSeq(enq, LAMBDA m : PriorityByName(m.service) = p)
WaitingOf(p) == chans[self_tx[p]].buf
\* messages held in the three channels submit_message sends to
InChannels ==
    Len(WaitingOf("Critical")) + Len(WaitingOf("Normal"))
        + Len(WaitingOf("Background"))

\* messages for which the callback returned an error
LostToError == Len(SelectSeq(handled, LAMBDA h : h.res = "Err"))

\* the validity conditions of the specification
ValidByWords(m) ==
    m.service # "" /\ m.vin # "" /\ m.timestamp > 0 /\ m.data.k # "absent"

PreEnqueueDrops == {"invalid message", "duplicate message", "sampling"}

HandledOf(p) ==
    LET hs == SelectSeq(handled, LAMBDA h : PriorityByName(h.msg.service) = p)
    IN  [k \in 1..Len(hs) |-> hs[k].msg]

----------------------------------------------------------------------------
(* C1..C10: the submit path *)

\* C1: every submit_message call has exactly one of the four outcomes: a
\* JSON parse error returned, a shape error (InvalidMessage) returned,
\* messages_received + 1, or messages_dropped + 1; never two, never none.
C1_ExactlyOneOutcome ==
    [][IsSubmitStep =>
        TruthCount(<< last'.ret = "JsonError",
                      last'.ret = "InvalidMessage",
                      stats'.messages_received = Received + 1,
                      stats'.messages_dropped = Dropped + 1 >>) = 1]_vars

\* C2: a frame that parses and has `service` and `params` but whose record
\* fails is_valid is counted as dropped (+1), enqueues nothing, and the call
\* returns Ok.
C2_InvalidRecordIsSilentDrop ==
    [][IsSubmitStep /\ last'.class = "invalid" =>
        /\ last'.ret = "Ok"
        /\ stats'.messages_dropped = Dropped + 1
        /\ chans' = chans]_vars

\* C3: a submit that fails with JsonError (malformed JSON) or with
\* InvalidMessage because `service` or `params` is missing or of the wrong
\* type changes no statistics counter, leaves the dedup cache as it was and
\* sends nothing to any channel.
C3_ParseAndShapeErrorsChangeNothing ==
    [][IsSubmitStep /\ last'.class \in {"malformed", "shape_error"} =>
        /\ last'.ret = IF last'.class = "malformed" THEN "JsonError"
                       ELSE "InvalidMessage"
        /\ stats' = stats
        /\ message_cache' = message_cache
        /\ chans' = chans]_vars

\* a shape error was returned by a processor whose counters and cache are
\* no longer in their initial state
C3_Witness ==
    /\ last.class = "shape_error"
    /\ last.ret = "InvalidMessage"
    /\ Dropped > 0
    /\ message_cache # << >>

\* C4: a frame with `service` and a `params` object holding `data` but no
\* `vin` and/or no `timestamp` is handled normally (vin "UNKNOWN", timestamp
\* the wall clock): the call completes with an ordinary outcome, it does not
\* fail or abort.
C4_MissingVinOrTimestampDefaults ==
    last.class = "no_vin_or_timestamp" =>
        /\ last.ret = "Ok"
        /\ Received + Dropped > 0

\* C5: on a started, idle pipeline with a registered handler, the first
\* submit, of a valid tracking message, gives messages_received = 1 and
\* messages_dropped = 0 (and the Critical worker then handles it once).
C5_TrackingMessageIsReceived ==
    [][( /\ Started
         /\ message_callback = "Some"
         /\ calls = 0
         /\ IsSubmitStep
         /\ last'.class = "valid"
         /\ last'.service = "tracking" ) =>
        /\ stats'.messages_received = 1
        /\ stats'.messages_dropped = 0
        /\ Len(chans'[self_tx["Critical"]].buf) = 1]_vars

\* C6: once workers run, the channel submit_message sends to for a priority
\* is the channel whose receiver the running worker of that priority holds.
C6_SubmitAddressesLiveChannels ==
    \A p \in Priorities :
        LiveWorkers(p) # {} =>
            \E i \in LiveWorkers(p) : tasks[i].rx = self_tx[p]

\* C7: with no worker draining, when all N submits so far offered a message
\* to one priority's channel of capacity C, the first C of them were accepted
\* (messages_received = min(N, C)) and the others dropped
\* (messages_dropped = N - min(N, C)); no channel holds more than its capacity.
C7_FirstCapacityAccepted ==
    \A p \in Priorities :
        (offered[p] = calls /\ Processed = 0 /\ handled = << >>) =>
            /\ Received = Min(calls, queue_capacity(p))
            /\ Dropped = calls - Min(calls, queue_capacity(p))
            /\ \A c \in DOMAIN chans : Len(chans[c].buf) <= chans[c].cap

\* C8: submit_message of a well-formed, valid message returns Ok whatever
\* happens to it: enqueued, dropped as duplicate, dropped by sampling, or
\* not enqueued because the channel is full or has no receiver; the failed
\* enqueue is one messages_dropped increment, never a QueueFull error.
C8_ValidSubmitReturnsOk ==
    [][IsSubmitStep /\ last'.class \in {"valid", "wrong_type"} =>
        /\ last'.ret = "Ok"
        /\ last'.reason \in {"-", "duplicate message", "sampling", "queue full"}
        /\ last'.reason = "queue full" =>
              /\ stats'.messages_dropped = Dropped + 1
              /\ stats'.messages_received = Received
              /\ chans' = chans]_vars

\* a valid message could not be enqueued on a processor that was never
\* started (the channel has no receiver), and the call returned Ok
C8_Witness ==
    /\ starts = << >>
    /\ last.class = "valid"
    /\ last.reason = "queue full"
    /\ last.ret = "Ok"
    /\ Dropped > 0

\* C9: acceptance into the Critical channel does not depend on what the
\* Background channel holds: on a started pipeline a valid, non-duplicate
\* tracking message is enqueued on the Critical channel and counted as
\* received, at every fill level of the Background channel.
C9_TrackingAcceptedWhateverBackgroundHolds ==
    [][( /\ Started
         /\ IsSubmitStep
         /\ last'.class = "valid"
         /\ last'.service = "tracking"
         /\ last'.reason # "duplicate message" ) =>
        \A b \in 0..BackgroundCapacity :
            Len(chans[self_tx["Background"]].buf) = b =>
                /\ stats'.messages_received = Received + 1
                /\ Len(chans'[self_tx["Critical"]].buf)
                     = Len(chans[self_tx["Critical"]].buf) + 1]_vars

\* C10: a submit of a message whose fingerprint passed the dedup check less
\* than 1 s ago is dropped as a duplicate: messages_dropped + 1,
\* messages_received unchanged, nothing enqueued, Ok returned.
C10_DuplicateWithinWindowDropped ==
    [][IsSubmitStep =>
        \A f \in ValidFrames \cup WrongTypeFrames :
            ( /\ FrameClass(f) = last'.class
              /\ f.service.s = last'.service
              /\ is_valid(Extract(f, now).msg)
              /\ get_hash(Extract(f, now).msg) \in DOMAIN message_cache
              /\ now - message_cache[get_hash(Extract(f, now).msg)] < 1000
              /\ \E rv \in RandomVals : submit_message(f, rv) ) =>
                /\ last'.ret = "Ok"
                /\ last'.reason = "duplicate message"
                /\ stats'.messages_dropped = Dropped + 1
                /\ stats'.messages_received = Received
                /\ chans' = chans]_vars

\* a duplicate was dropped half a second after its fingerprint was cached
C10_Witness ==
    /\ last.reason = "duplicate message"
    /\ last.ret = "Ok"
    /\ calls = 2
    /\ \E h \in DOMAIN message_cache :
          now - message_cache[h] > 0 /\ now - message_cache[h] < 1000

----------------------------------------------------------------------------
(* C11..C20 *)

\* C11: a submit of a message whose fingerprint was cached more than 1 s ago
\* is not a duplicate: it is not dropped as one, its cache entry is set to
\* the current time, and the call goes on to the sampling check and, past
\* it, to try_send on the channel of the message's priority.
C11_ResubmitAfterWindowContinues ==
    [][IsSubmitStep =>
        \A f \in ValidFrames \cup WrongTypeFrames :
            ( /\ FrameClass(f) = last'.class
              /\ f.service.s = last'.service
              /\ is_valid(Extract(f, now).msg)
              /\ get_hash(Extract(f, now).msg) \in DOMAIN message_cache
              /\ now - message_cache[get_hash(Extract(f, now).msg)] > 1000
              /\ \E rv \in RandomVals : submit_message(f, rv) ) =>
                /\ last'.reason # "duplicate message"
                /\ last'.ret = "Ok"
                /\ message_cache'[get_hash(Extract(f, now).msg)] = now
                /\ \/ last'.reason = "sampling"
                   \/ \E p \in Priorities :
                        /\ f.service.s \in
                             (CASE p = "Critical" -> {"tracking"}
                                [] p = "Normal" -> {"vcc"}
                                [] p = "Background" -> {"traj"})
                        /\ offered'[p] = offered[p] + 1]_vars

\* the same tracking message reached try_send twice, the second time after
\* the clock had moved past the window, and its cache entry is the new time
C11_Witness ==
    /\ starts = << >>
    /\ calls = 2
    /\ offered["Critical"] = 2
    /\ Cardinality(DOMAIN message_cache) = 1
    /\ now > 1000
    /\ \A h \in DOMAIN message_cache : message_cache[h] = now

\* C12: should_process accepts, whatever the hash of the clock gives, for
\* every service whose rate is exactly 1.0, a service the configuration
\* does not list included, and never accepts for a service whose rate is
\* exactly 0.0.
C12_RateOneAlwaysRateZeroNever ==
    \A s \in TypesServices, rv \in HashMod :
        /\ get_rate(rates, s) = 1000 => should_process(rates, s, rv)
        /\ s \notin DOMAIN rates => should_process(rates, s, rv)
        /\ get_rate(rates, s) = 0 => ~should_process(rates, s, rv)

\* should_process was called for a service set to rate 0.0 with the hash
\* giving 0, the value closest to acceptance, and it rejected
C12_Witness ==
    /\ probe.op = "should_process"
    /\ probe.arg = 0
    /\ probe.res = 0
    /\ probe.service \in DOMAIN rates
    /\ rates[probe.service] = 0

\* C13: once update_sampling_config has set the rate of traj to 0.0, every
\* submit of a valid traj message that is not a duplicate is dropped by the
\* sampling check: messages_dropped + 1, messages_received unchanged,
\* nothing enqueued, no handler call, Ok returned.
C13_ZeroRateDropsEveryTraj ==
    [][( /\ IsSubmitStep
         /\ "traj" \in DOMAIN rates
         /\ rates["traj"] = 0
         /\ last'.class = "valid"
         /\ last'.service = "traj"
         /\ last'.reason # "duplicate message" ) =>
        /\ last'.reason = "sampling"
        /\ last'.ret = "Ok"
        /\ stats'.messages_dropped = Dropped + 1
        /\ stats'.messages_received = Received
        /\ chans' = chans
        /\ offered' = offered
        /\ handled' = handled]_vars

\* with the rate of traj at 0.0 on a started processor, two traj messages
\* of different fingerprints were submitted and both were dropped, the
\* last one by sampling; nothing was received or handled
C13_Witness ==
    /\ Started
    /\ rates["traj"] = 0
    /\ calls = 2
    /\ last.service = "traj"
    /\ last.reason = "sampling"
    /\ Cardinality(DOMAIN message_cache) = 2
    /\ \A h \in DOMAIN message_cache : h[1] = "traj"
    /\ Dropped = 2
    /\ Received = 0
    /\ handled = << >>

\* C14: set_rate(s, r) followed by get_rate(s) gives r clamped to [0, 1]
\* (1.5 gives 1.0, -0.5 gives 0.0, 0.5 gives 0.5), the rate of every other
\* service is what it was, and get_rate of a service that was never set and
\* is not among the defaults gives 1.0.
C14_SetRateClampsGetRateDefaults ==
    [][ /\ \A s \in TypesServices :
            (s \notin DOMAIN rates) => get_rate(rates, s) = 1000
        /\ (probe'.op = "set_rate" /\ probe' # probe) =>
            /\ probe'.res = (CASE probe'.arg = 1500 -> 1000
                                [] probe'.arg = -500 -> 0
                                [] probe'.arg < 0 -> 0
                                [] probe'.arg > 1000 -> 1000
                                [] OTHER -> probe'.arg)
            /\ get_rate(rates', probe'.service) = probe'.res
            /\ \A o \in (TypesServices \cup Services) \ {probe'.service} :
                  get_rate(rates', o) = get_rate(rates, o) ]_vars

\* set_rate was called with 1.5 for a service outside the defaults, which
\* now holds 1.0, after another service had been set to 0.5
C14_Witness ==
    /\ probe.op = "set_rate"
    /\ probe.arg = 1500
    /\ probe.service = "custom_service"
    /\ get_rate(rates, "custom_service") = 1000
    /\ get_rate(rates, "tracking") = 500

\* C15: from_service gives every service name one priority: Critical for
\* tracking, route, error_info; Background for traj, moving_obj, device,
\* loc_stat; Normal for every other string.  A submit_message call adds a
\* message to at most one channel, the one of the priority of the message's
\* service, and to no other.
C15_ClassificationAndRouting ==
    [][ /\ \A s \in NamedServices : from_service(s) = PriorityByName(s)
        /\ \A c \in DOMAIN chans :
              Len(chans'[c].buf) > Len(chans[c].buf) =>
                /\ c = self_tx[PriorityByName(
                                 chans'[c].buf[Len(chans'[c].buf)].service)]
                /\ chans'[c].buf[Len(chans'[c].buf)] = enq'[Len(enq')]
                /\ \A d \in DOMAIN chans \ {c} : chans'[d] = chans[d] ]_vars

\* each of the three channels holds one message
C15_Witness ==
    /\ \A p \in Priorities : Len(WaitingOf(p)) = 1
    /\ WaitingOf("Critical")[1].service = "tracking"
    /\ WaitingOf("Normal")[1].service = "vcc"
    /\ WaitingOf("Background")[1].service = "traj"

\* C16: within one priority the callback receives the messages in the order
\* in which submit_message enqueued them: what was handed over so far is a
\* prefix of the enqueue order, and what waits in the channel continues it
\* in the same order.
C16_HandlerOrderIsEnqueueOrder ==
    \A p \in Priorities :
        \E k \in 0..Len(EnqOf(p)) :
            /\ WaitingOf(p) = SubSeq(EnqOf(p), k + 1, Len(EnqOf(p)))
            /\ message_callback = "Some" => HandledOf(p) = SubSeq(EnqOf(p), 1, k)

\* the callback received two Critical messages, d2 before d1, with a
\* message of another priority handled between them
C16_Witness ==
    /\ message_callback = "Some"
    /\ Len(handled) = 3
    /\ handled[1].msg.service = "tracking" /\ handled[1].msg.data.s = "d2"
    /\ handled[2].msg.service # "tracking"
    /\ handled[3].msg.service = "tracking" /\ handled[3].msg.data.s = "d1"

C18_DroppedNeverEnqueuedNorHandled ==
    [][ /\ (IsSubmitStep /\ ( last'.reason \in PreEnqueueDrops
                               \/ last'.class = "invalid" )) =>
              /\ chans' = chans
              /\ handled' = handled
              /\ enq' = enq
              /\ stats'.messages_received = Received
        /\ \A p \in Priorities :
              /\ \A k \in DOMAIN WaitingOf(p) : ValidByWords(WaitingOf(p)[k])
              /\ \A k \in DOMAIN HandledOf(p) : ValidByWords(HandledOf(p)[k])
        /\ InChannels + Len(handled) <= Len(enq) ]_vars

\* three submits ended, two of them with a drop before try_send (the last
\* one as a duplicate); the one message enqueued is the only one handled
C18_Witness ==
    /\ message_callback = "Some"
    /\ calls = 3
    /\ last.reason = "duplicate message"
    /\ Dropped = 2
    /\ Len(enq) = 1
    /\ Len(handled) = 1
    /\ handled[1].res = "Ok"

\* C19: when the callback returns an error for a dequeued message, the
\* worker adds one to messages_dropped, leaves messages_processed as it
\* was, puts the message back on no channel and stays alive; and no worker
\* ends while the running flag is set.
C19_HandlerErrorIsDropWorkerSurvives ==
    [][ /\ ( /\ Len(handled') = Len(handled) + 1
             /\ handled'[Len(handled')].res = "Err" ) =>
              /\ stats'.messages_dropped = Dropped + 1
              /\ stats'.messages_processed = Processed
              /\ stats'.messages_received = Received
              /\ \A c \in DOMAIN chans : Len(chans'[c].buf) <= Len(chans[c].buf)
              /\ \E c \in DOMAIN chans :
                    /\ chans[c].buf # << >>
                    /\ Head(chans[c].buf) = handled'[Len(handled')].msg
                    /\ chans'[c].buf = Tail(chans[c].buf)
              /\ tasks' = tasks
        /\ \A i \in DOMAIN tasks :
              (tasks[i].alive /\ ~tasks'[i].alive) => ~is_running ]_vars

\* the callback failed on a Critical message and the same worker, still
\* running, then handled the next one
C19_Witness ==
    /\ is_running
    /\ Len(handled) = 2
    /\ handled[1].res = "Err" /\ handled[1].msg.service = "tracking"
    /\ handled[2].res = "Ok" /\ handled[2].msg.service = "tracking"
    /\ Processed = 1
    /\ Dropped = 1

\* C20: start on a processor that is already running returns ConfigError
\* and changes nothing: the running flag stays set and no worker, cleanup
\* task or channel is created; tasks and channels are only ever created by
\* a start that found the flag clear.
C20_StartWhileRunningRejected ==
    [][ /\ is_running =>
              /\ Len(tasks') = Len(tasks)
              /\ Len(chans') = Len(chans)
              /\ Len(starts') = Len(starts)
        /\ (start_ret' = "ConfigError" /\ start_ret # "ConfigError") =>
              /\ is_running /\ is_running'
              /\ UNCHANGED << message_callback, stats, message_cache, rates,
                              chans, self_tx, tasks, starts, offered, handled,
                              enq >> ]_vars

\* a second start returned ConfigError while the four tasks of the first
\* run and the flag is set
C20_Witness ==
    /\ start_ret = "ConfigError"
    /\ is_running
    /\ Len(starts) = 1
    /\ Len(tasks) = 4
    /\ \A i \in DOMAIN tasks : tasks[i].alive
    /\ Len(chans) = 6

----------------------------------------------------------------------------
(* C21..C30 *)

\* C21: a start that succeeds returns Ok to its caller while the three
\* workers and the cleanup task it spawned keep running and the running
\* flag is still set: its return waits neither for stop nor for the end of
\* any task.
C21_StartReturnsWhileTasksRun ==
    [][\A k \in DOMAIN starts :
          (~starts[k].returned /\ starts'[k].returned) =>
              /\ start_ret' = "Ok"
              /\ \A i \in 1..4 : tasks[starts[k].task0 + i].alive]_vars

\* every task spawned so far has ended
AllTasksEnded == \A i \in DOMAIN tasks : ~tasks[i].alive

\* C22: stop only clears the running flag, whatever the workers are doing
\* and whatever the channels hold; once the flag stays clear (no later
\* start), each of the three workers and the cleanup task ends.
C22_StopClearsFlagTasksEnd ==
    /\ [][(is_running /\ ~is_running') =>
            UNCHANGED << message_callback, stats, message_cache, rates, chans,
                         self_tx, tasks, starts, now, calls, offered, handled,
                         start_ret, last, enq, inflight, pass,
                    mon, client >>]_vars
    /\ [](is_running => ENABLED (stop /\ ~is_running'))
    /\ (<>[](~is_running)) => <>[]AllTasksEnded

\* the processor is stopped, its four tasks have ended, and a message that
\* was received still sits in the Critical channel, not handed to anyone
C22_Witness ==
    /\ ~is_running
    /\ Len(tasks) = 4
    /\ AllTasksEnded
    /\ Received >= 1
    /\ Len(WaitingOf("Critical")) >= 1
    /\ handled = << >>

\* C23: an entry leaves the dedup cache only inside a cleanup pass, and only
\* if it was in the cache when the pass read the clock and was at least
\* 300 s old then; an entry that a submit inserted or refreshed while the
\* pass was walking the map is never removed by that pass.
C23_PassRemovesOnlyOldEntries ==
    [][\A h \in DOMAIN message_cache :
          h \notin DOMAIN message_cache' =>
              /\ pass.active
              /\ h \in DOMAIN pass.cache0
              /\ pass.now - pass.cache0[h] >= CacheRetentionMs
              /\ message_cache[h] = pass.cache0[h]]_vars

\* a pass removed an entry that was exactly 300 s old when it began, and
\* visited and kept an entry that a submit inserted after it began
C23_Witness ==
    /\ pass.removed_count >= 1
    /\ \E h \in DOMAIN pass.cache0 :
          /\ h \notin DOMAIN message_cache
          /\ pass.now - pass.cache0[h] = CacheRetentionMs
    /\ \E h \in pass.visited :
          /\ h \in DOMAIN message_cache
          /\ h \notin DOMAIN pass.cache0
          /\ message_cache[h] > pass.now

\* the thresholds of the health table, on the value get_drop_rate returns
HealthCritical ==
    \/ 10 * get_drop_rate(stats).num > get_drop_rate(stats).den
    \/ stats.avg_processing_time_us > 10000
    \/ stats.queue_size > 800

HealthWarning ==
    \/ 20 * get_drop_rate(stats).num > get_drop_rate(stats).den
    \/ stats.avg_processing_time_us > 5000
    \/ stats.queue_size > 500

C25_DropRateInUnitInterval ==
    /\ 0 <= get_drop_rate(stats).num
    /\ get_drop_rate(stats).num <= get_drop_rate(stats).den
    /\ stats = NewStats => get_drop_rate(stats).num = 0

\* C26: get_drop_rate is messages_dropped / max(1, messages_received); with
\* nothing received and d > 0 dropped it is d.
C26_DropRateOverMaxOneReceived ==
    get_drop_rate(stats).num * (IF stats.messages_received > 1
                                THEN stats.messages_received ELSE 1)
        = stats.messages_dropped * get_drop_rate(stats).den

\* C27: the first duration recorded becomes the average; every later one
\* moves it to (9 * old + sample) / 10 rounded down, also when the first
\* sample or the average so far is 0.
C27_FirstSampleThenMovingAverage ==
    [][(probe'.op = "record_processed"
        /\ stats'.messages_processed = stats.messages_processed + 1) =>
          stats'.avg_processing_time_us =
              IF stats.messages_processed = 0
              THEN probe'.arg
              ELSE (9 * stats.avg_processing_time_us + probe'.arg) \div 10]_vars

\* C28: is_recoverable is true for JsonError, InvalidMessage, QueueFull,
\* Timeout and the transport error (NanomsgError), and false for
\* ConfigError.
C28_RecoverableAsInTaxonomy ==
    probe.op = "is_recoverable" =>
        /\ probe.kind \in {"JsonError", "InvalidMessage", "QueueFull", "Timeout",
                            "NanomsgError"} => probe.res[1]
        /\ probe.kind = "ConfigError" => ~probe.res[1]

\* the integer part of a timestamp, in seconds
IntPart(timestamp) ==
    IF timestamp >= 0 THEN timestamp \div 1000 ELSE 0 - ((0 - timestamp) \div 1000)

\* C29: two messages that agree on service, vin, the integer part of the
\* timestamp and the data payload have the same fingerprint, whatever the
\* fraction of the timestamp, the channel, run_scene and the other params
\* are; a second get_hash on one message gives the first one's value.
C29_FingerprintFromFourFields ==
    probe.op = "get_hash" =>
        /\ (/\ probe.a.service = probe.b.service
            /\ probe.a.vin = probe.b.vin
            /\ IntPart(probe.a.timestamp) = IntPart(probe.b.timestamp)
            /\ probe.a.data = probe.b.data) => probe.res[1] = probe.res[2]
        /\ probe.res[3] = probe.res[1]

\* two valid messages 0.5 s apart within one second, with different channel,
\* run_scene and other params, were given the same fingerprint
C29_Witness ==
    /\ probe.op = "get_hash"
    /\ is_valid(probe.a)
    /\ probe.a.timestamp = 1000000
    /\ probe.b.timestamp = 1000500
    /\ probe.a.channel # probe.b.channel
    /\ probe.a.run_scene # probe.b.run_scene
    /\ probe.a.extra = Absent
    /\ probe.b.extra # Absent
    /\ probe.res[1] = probe.res[2]

\* C30: a message written to JSON and read back is a record with the same
\* service, vin and timestamp, the same fingerprint and the same is_valid.
C30_JsonRoundTrip ==
    probe.op = "round_trip" =>
        /\ probe.kind = "Ok"
        /\ probe.b.service = probe.a.service
        /\ probe.b.vin = probe.a.vin
        /\ probe.b.timestamp = probe.a.timestamp
        /\ get_hash(probe.b) = get_hash(probe.a)
        /\ is_valid(probe.b) = is_valid(probe.a)

C36_RecordReceivedNoSelfDeadlock ==
    /\ ~(mon.rr = "report" /\ mon.stats_w = "rr")
    /\ ~(mon.rr = "report" /\ mon.report_w = "rr"
         /\ mon.rs = "report" /\ mon.stats_w = "rs")

\* C33: record_received adds 1 to messages_received and nothing else,
\* record_dropped 1 to messages_dropped and nothing else, record_processed
\* 1 to messages_processed and touches only the average besides,
\* update_queue_size sets queue_size to its argument and nothing else, and
\* get_stats changes nothing and returns the values as they stand.
C33_EachOperationOwnField ==
    [][/\ probe'.op = "record_received" =>
            stats' = [stats EXCEPT !.messages_received = @ + 1]
       /\ probe'.op = "record_dropped" =>
            stats' = [stats EXCEPT !.messages_dropped = @ + 1]
       /\ probe'.op = "record_processed" =>
            /\ stats'.messages_processed = stats.messages_processed + 1
            /\ stats'.messages_received = stats.messages_received
            /\ stats'.messages_dropped = stats.messages_dropped
            /\ stats'.queue_size = stats.queue_size
       /\ probe'.op = "update_queue_size" =>
            stats' = [stats EXCEPT !.queue_size = probe'.arg]
       /\ probe'.op = "get_stats" =>
            /\ stats' = stats
            /\ probe'.ret = stats]_vars

\* get_stats returned one received, one dropped, one processed in 5000 us
\* and a queue size that was set to 800 and then to 501
C33_Witness ==
    /\ probe.op = "get_stats"
    /\ probe.ret = [messages_received |-> 1, messages_processed |-> 1,
                    messages_dropped |-> 1, avg_processing_time_us |-> 5000,
                    queue_size |-> 501]

\* C37: a submit writes the dedup cache exactly when its message is valid and
\* no entry younger than 1 s exists for its fingerprint: the entry is then
\* set to the current time whether the message is afterwards sampled out,
\* refused by its queue or enqueued.  A submit that fails parsing or
\* validation, or is dropped as a duplicate, leaves the cache as it was.
C37_CacheWrittenIffPastDedup ==
    [][IsSubmitStep =>
        \A f \in Frames :
            ( /\ FrameClass(f) = last'.class
              /\ (IF f.service.k = "str" THEN f.service.s ELSE "-") = last'.service
              /\ \E rv \in RandomVals : submit_message(f, rv) ) =>
                LET e == Extract(f, now)
                    h == get_hash(e.msg)
                    usable == e.tag = "Msg" /\ ValidByWords(e.msg)
                    young == h \in DOMAIN message_cache
                                /\ now - message_cache[h] < 1000
                    old == h \in DOMAIN message_cache
                                /\ now - message_cache[h] > 1000
                IN  /\ (usable /\ (h \notin DOMAIN message_cache \/ old)) =>
                        /\ DOMAIN message_cache' = DOMAIN message_cache \cup {h}
                        /\ message_cache'[h] = now
                        /\ \A x \in DOMAIN message_cache \ {h} :
                              message_cache'[x] = message_cache[x]
                        /\ last'.reason \in {"sampling", "queue full", "-"}
                    /\ (~usable \/ young) => message_cache' = message_cache
                    /\ (usable /\ young) => last'.reason = "duplicate message"]_vars

\* a message was sampled out and, resubmitted within the second, dropped as
\* a duplicate: two drops, nothing ever offered to a queue
C37_Witness ==
    /\ calls = 2
    /\ last.reason = "duplicate message"
    /\ Dropped = 2
    /\ \A p \in Priorities : offered[p] = 0
    /\ Cardinality(DOMAIN message_cache) = 1
    /\ \A h \in DOMAIN message_cache : now - message_cache[h] < 1000

C40_NoCallbackStillProcessed ==
    [][(/\ message_callback = "None"
        /\ \E c \in DOMAIN chans : Len(chans'[c].buf) < Len(chans[c].buf)) =>
          /\ stats'.messages_processed = Processed + 1
          /\ stats'.messages_dropped = Dropped
          /\ stats'.messages_received = Received
          /\ handled' = handled
          /\ tasks' = tasks
          /\ \E c \in DOMAIN chans :
                /\ chans[c].buf # << >>
                /\ chans'[c].buf = Tail(chans[c].buf)
                /\ \A d \in DOMAIN chans \ {c} : chans'[d] = chans[d]]_vars

\* with no callback, two enqueued messages were both taken and counted as
\* processed; no channel holds anything and nothing was dropped
C40_Witness ==
    /\ message_callback = "None"
    /\ Len(enq) = 2
    /\ Processed = 2
    /\ Dropped = 0
    /\ InChannels = 0
    /\ handled = << >>

\* C32: no step of submit, of a worker, of start or of stop lowers
\* messages_received, messages_processed or messages_dropped; a counter
\* goes down only in a reset_stats step, which is none of those, and start
\* and stop leave the statistics as they are.
C32_CountersMonotoneButForReset ==
    [][/\ ( \/ stats'.messages_received < Received
            \/ stats'.messages_processed < Processed
            \/ stats'.messages_dropped < Dropped ) =>
              /\ probe'.op = "reset_stats"
              /\ stats' = NewStats
              /\ UNCHANGED << is_running, tasks, chans, starts, calls, inflight,
                              handled >>
       /\ (is_running' # is_running \/ starts' # starts) => stats' = stats]_vars

\* the processor was stopped and started a second time with all three
\* counters above zero, and no reset was ever made
C32_Witness ==
    /\ Len(starts) = 2
    /\ is_running
    /\ Received >= 1
    /\ Processed >= 1
    /\ Dropped >= 1
    /\ probe.op = "-"

\* C35: at any time at most one worker per priority and at most one cleanup
\* task are alive.
C35_OneTaskOfEachKind ==
    /\ \A p \in Priorities : Cardinality(LiveWorkers(p)) <= 1
    /\ Cardinality({ i \in DOMAIN tasks :
                        tasks[i].kind = "cleanup" /\ tasks[i].alive }) <= 1


\* callers that are past the dedup check of their call
PastDedup == { c \in Callers : probe[c].pc \in {"insert", "tail"} }

\* C34: of two submit_message calls that run together for messages of one
\* fingerprint, entered less than a second apart, at most one is past the
\* dedup check (the lookup and the insert act as one step)
C34_AtMostOnePassesDedup ==
    \A c, d \in PastDedup :
        ( /\ get_hash(CallerMsg(c)) = get_hash(CallerMsg(d))
          /\ probe[c].t - probe[d].t < DedupWindowMs
          /\ probe[d].t - probe[c].t < DedupWindowMs )
        => c = d



ClientStopped ==
    /\ client.stop = "returned"
    /\ client.manager = "exited"
    /\ client.receiver = "exited"

\* C39: once stop has returned and the connection manager and the receiver
\* have exited, the state is Disconnected and no socket is held
C39_StoppedClientIsDisconnected ==
    ClientStopped =>
        /\ client.connection_state = "Disconnected"
        /\ client.socket = "None"

====
